---- MODULE Spec2Model ----
(***************************************************************************)
(* Parliament (src/parliament/parliament.js): the monitoring-and-alerting  *)
(* engine.  The state is the module-level state of the server process:     *)
(* the clusters of the parliament, the notifier settings, the issue list,  *)
(* the pending alert list, the timers armed by sendAlerts, and the fetches *)
(* a poll cycle has outstanding.  Every action is one callback of the Node *)
(* event loop, run to completion.  The parliament file                     *)
(* is written but never read back after startup, so its contents are not   *)
(* part of the state here; of the issues file the state holds the list     *)
(* that the latest fs.writeFile call was given.                            *)
(***************************************************************************)
EXTENDS Integers, Sequences, FiniteSets, TLC

(***************************************************************************)
(* Program constants                                                       *)
(***************************************************************************)
\* JavaScript undefined in a numeric field (a timestamp that is not set).
\* Every test the code makes on such a field is written out below for this
\* value: !x is x = Undefined, and now > undefined is false.
Undefined == 0
\* ignoreUntil of an issue that is ignored forever
Forever == -1
\* setTimeout(..., 250 * i) in sendAlerts
AlertDelay == 250
\* setInterval(..., 10000)
PollInterval == 10000
\* getGeneralSetting(...) * 1000 * 60 in cleanUpIssues
MsPerMinute == 60000
\* req.body.ms || 3600000 in PUT /ignoreIssues
DefaultIgnoreMs == 3600000
\* settingsDefault.general
DefaultOutOfDate == 30
DefaultEsQueryTimeout == 5
DefaultRemoveIssuesAfter == 60
DefaultRemoveAcknowledgedAfter == 15
\* Date.now() when the server starts listening, in ms.  The real value is
\* about 1.5e12; the model keeps it inside TLC's 32 bit integers and above
\* every time window the settings express.
Epoch == 2000000000

\* JavaScript undefined in a string field (node, healthError, ...)
UndefinedStr == "undefined"

IssueTypeIds == {"esRed", "esDown", "esDropped", "outOfDate", "noPackets"}

issueTypes ==
  [t \in IssueTypeIds |->
     CASE t = "esRed"     -> [name |-> "ES Red", text |-> "ES is red", severity |-> "red"]
       [] t = "esDown"    -> [name |-> "ES Down", text |-> " ES is down", severity |-> "red"]
       [] t = "esDropped" -> [name |-> "ES Dropped", text |-> "ES is dropping bulk inserts", severity |-> "yellow"]
       [] t = "outOfDate" -> [name |-> "Out of Date", text |-> "has not checked in since", severity |-> "red"]
       [] t = "noPackets" -> [name |-> "No Packets", text |-> "is not receiving packets", severity |-> "red"]]

\* defaults that keep an acknowledged issue twice as long as another
\* (AcknowledgedRemovedNoLater tells them from settingsDefault)
settingsDefaultAcknowledgedLonger ==
  [outOfDate               |-> DefaultOutOfDate,
   esQueryTimeout          |-> DefaultEsQueryTimeout,
   removeIssuesAfter       |-> DefaultRemoveIssuesAfter,
   removeAcknowledgedAfter |-> DefaultRemoveIssuesAfter * 2]

settingsDefault ==
  [outOfDate               |-> DefaultOutOfDate,
   esQueryTimeout          |-> DefaultEsQueryTimeout,
   removeIssuesAfter       |-> DefaultRemoveIssuesAfter,
   removeAcknowledgedAfter |-> DefaultRemoveAcknowledgedAfter]

(***************************************************************************)
(* Bounds of the model                                                     *)
(***************************************************************************)
\* the clock advances by TickMinutes minutes at a time when no alert timer
\* is armed, at most MaxTicks times
MaxTicks == 3
\* issues in the issue list
MaxIssues == 3
\* alerts in the pending list
MaxAlerts == 2
\* poll cycles with fetches outstanding
MaxCycles == 2
\* nodes in the stats document of the pacing specification: a batch long
\* enough that its last timer (AlertDelay * (n - 1)) is due after the next
\* interval (PollInterval)
PacingNodes == 42

TickMinutes == 15
\* clock advances of the specifications that need less time
KeysTicks == 1
NotifyTicks == 1
PacingTicks == 1
\* clock advances that take the clock past the longest retention window
CeaseTicks == 5
\* fs.writeFile calls in flight at once
MaxWrites == 2

(***************************************************************************)
(* Values                                                                  *)
(***************************************************************************)
\* the value of an issue: undefined, a string (error text) or a number
NoValue      == [t |-> "undefined", s |-> "", n |-> 0]
StrValue(s)  == [t |-> "string", s |-> s, n |-> 0]
NumValue(n)  == [t |-> "number", s |-> "", n |-> n]
\* JavaScript truthiness of a value: if (issue.value)
Truthy(v) == \/ v.t = "string" /\ v.s # ""
             \/ v.t = "number" /\ v.n # 0

VARIABLES
  now,        \* Date.now(), ms
  nextPoll,   \* the time the setInterval timer is due
  crashed,    \* an exception reached the event loop: the process has exited
  clusters,   \* parliament.groups[*].clusters[*], in iteration order
  general,    \* parliament.settings.general
  notifiers,  \* parliament.settings.notifiers
  issues,     \* the issue list
  issuesSaved,    \* the issue list as the latest fs.writeFile of the issues file was given it
  alerts,     \* the pending alert list
  flushes,    \* sendAlerts invocations whose timers have not all fired
  fetches,    \* health and stats requests awaiting their response
  cycles,     \* updateParliament invocations awaiting Promise.all
  hung,       \* a promise of some cycle will never be resolved
  sentTwice,  \* history: sendAlert was called with a pending alert it had been called with
  discarded,  \* history: a pending alert left the list without a sendAlert call
  lastDetected,   \* history: what the setIssue calls of the last step found (see Found)
  ignoredForever, \* history: the keys ignored forever and not unignored since
  disk,       \* the issues file and the fs.writeFile calls whose callback has not run
  defaults    \* settingsDefault, and the parts of it that parliament.settings holds

vars == <<now, nextPoll, crashed, clusters, general, notifiers, issues, issuesSaved, alerts,
          flushes, fetches, cycles, hung, sentTwice, discarded, lastDetected,
          ignoredForever, disk, defaults>>

(***************************************************************************)
(* The notifier registry (internals.notifiers): the plugins register at    *)
(* startup; for (let n in internals.notifiers) visits them in registration *)
(* order.  Each declares its fields.                                       *)
(***************************************************************************)
NotifierNames == <<"n1", "n2">>

NotifierFields ==
  [n \in {"n1", "n2"} |->
     IF n = "n1" THEN <<[name |-> "url", required |-> TRUE]>>
                 ELSE <<[name |-> "to", required |-> FALSE]>>]

FieldNames(n) == {NotifierFields[n][k].name : k \in 1..Len(NotifierFields[n])}

\* a field of parliament.settings.notifiers[n].fields; present = FALSE is a
\* field the settings do not hold (fields[f.name] is undefined)
AbsentField == [present |-> FALSE, required |-> FALSE, value |-> ""]
Field(required, value) == [present |-> TRUE, required |-> required, value |-> value]

(***************************************************************************)
(* Messages.  A rendered message is kept as its parts; localeCompare is    *)
(* computed on the parts in the order they appear in the text.             *)
(***************************************************************************)
NodeName(i) == IF i < 10 THEN "n0" \o ToString(i) ELSE "n" \o ToString(i)

ErrorTexts == {"ETIMEDOUT", "ECONNREFUSED"}

\* formatIssueMessage: [node + ' '] + text + [': ' + value], the value of an
\* esDropped issue with thousands separators, of an outOfDate issue as a
\* Date, of any other issue as it is
formatIssueMessage(issue) ==
  [node  |-> IF issue.node # UndefinedStr /\ issue.node # "" THEN issue.node ELSE "",
   text  |-> issue.text,
   fmt   |-> IF ~Truthy(issue.value) THEN "none"
             ELSE IF issue.type = "esDropped" THEN "commas"
             ELSE IF issue.type = "outOfDate" THEN "date"
             ELSE "raw",
   value |-> IF Truthy(issue.value) THEN issue.value ELSE NoValue]

\* `${cluster.title} - ${issue.message}`
AlertMessage(cluster, issue) == [title |-> cluster.title, body |-> issue.message]

\* the strings a message is made of, in ascending collation order: text
\* that starts with a space sorts first, letters compare without case
Collation ==
  <<"", " ES is down", "A Cluster", "B Cluster",
    "Cannot read property 'name' of undefined", "ECONNREFUSED",
    "ES is dropping bulk inserts", "ES is red", "ETIMEDOUT",
    "has not checked in since", "is not receiving packets">>

Rank(s) ==
  IF \E k \in 1..Len(Collation) : Collation[k] = s
    THEN CHOOSE k \in 1..Len(Collation) : Collation[k] = s
    ELSE Len(Collation) + (CHOOSE i \in 1..99 : NodeName(i) = s)

\* the message of the TypeError that reading field.name of undefined throws
TypeErrorText == "Cannot read property 'name' of undefined"

\* the message as the sequence of its parts, each by its collation rank; a
\* numeric value by its magnitude
CollationKey(m) ==
  <<Rank(m.title)>>
    \o (IF m.body.node # "" THEN <<Rank(m.body.node)>> ELSE <<>>)
    \o <<Rank(m.body.text)>>
    \o (IF m.body.fmt = "none" THEN <<>>
        ELSE IF m.body.value.t = "string" THEN <<Rank(m.body.value.s)>>
        ELSE <<m.body.value.n>>)

RECURSIVE KeyCompare(_, _)
\* < 0, 0, > 0 as the first key sorts before, with, after the second
KeyCompare(a, b) ==
  IF a = <<>> /\ b = <<>> THEN 0
  ELSE IF a = <<>> THEN -1
  ELSE IF b = <<>> THEN 1
  ELSE IF Head(a) < Head(b) THEN -1
  ELSE IF Head(a) > Head(b) THEN 1
  ELSE KeyCompare(Tail(a), Tail(b))

localeCompare(a, b) == KeyCompare(CollationKey(a), CollationKey(b))

\* alerts.sort((a, b) => a.message.localeCompare(b.message)), a stable sort:
\* the k-th alert goes behind those that compare lower and those that
\* compare equal and stood before it
SortedIndex(s, k) ==
  1 + Cardinality({j \in 1..Len(s) :
                     \/ localeCompare(s[j].message, s[k].message) < 0
                     \/ localeCompare(s[j].message, s[k].message) = 0 /\ j < k})

\* the list with the k-th alert at position index[k]
SortedBy(s, index) ==
  [p \in 1..Len(s) |-> s[CHOOSE k \in 1..Len(s) : index[k] = p]]

\* (the concatenation makes a tuple of the indexes, each computed once)
SortAlerts(s) == SortedBy(s, [k \in 1..Len(s) |-> SortedIndex(s, k)] \o <<>>)

(***************************************************************************)
(* buildAlert                                                              *)
(***************************************************************************)
\* the loop over notifier.fields: reading field.name of a field the
\* settings do not hold throws a TypeError
ConfigThrows(n, ns) ==
  \E k \in 1..Len(NotifierFields[n]) :
    ~ns[n].fields[NotifierFields[n][k].name].present

\* a field that is required and has no value is logged and left out of the
\* config (continue); every other field goes into it
FieldSkipped(field) == field.required /\ field.value = ""

ConfigOf(n, ns) ==
  LET fs   == NotifierFields[n]
      kept == SelectSeq(fs, LAMBDA f : ~FieldSkipped(ns[n].fields[f.name]))
  IN  [k \in 1..Len(kept) |->
         [name |-> kept[k].name, value |-> ns[n].fields[kept[k].name].value]]

\* quit before sending the alert if the notifier is off
NotifierOff(n, ns) == ~ns[n].exists \/ ~ns[n].on

\* a test that takes every alert to be on
\* (AppendedOnlyWhenOn tells it from AlertOff)
AlertNeverOff(n, ns, type) == FALSE

\* quit before sending the alert if the alert is off
AlertOff(n, ns, type) == ~ns[n].alerts[type]

\* alerts.push({ config, message, notifier }) ahead of what the rest of the
\* loop pushes.  sends counts the sendAlert calls made with the pending
\* alert (it is not a field of the program's object).
Pushed(n, cluster, issue, ns, rest) ==
  [threw  |-> rest.threw,
   pushed |-> <<[config   |-> ConfigOf(n, ns),
                 message  |-> AlertMessage(cluster, issue),
                 notifier |-> n,
                 sends    |-> 0]>> \o rest.pushed]

RECURSIVE BuildAlertFrom(_, _, _, _)
\* the loop of buildAlert from the k-th notifier on: what it pushes onto the
\* alert list, and whether it ends by throwing
BuildAlertFrom(k, cluster, issue, ns) ==
  IF k > Len(NotifierNames) THEN [threw |-> FALSE, pushed |-> <<>>]
  ELSE IF NotifierOff(NotifierNames[k], ns) THEN BuildAlertFrom(k + 1, cluster, issue, ns)
  ELSE IF AlertOff(NotifierNames[k], ns, issue.type)
    THEN BuildAlertFrom(k + 1, cluster, issue, ns)
  ELSE IF ConfigThrows(NotifierNames[k], ns) THEN [threw |-> TRUE, pushed |-> <<>>]
  ELSE Pushed(NotifierNames[k], cluster, issue, ns,
              BuildAlertFrom(k + 1, cluster, issue, ns))

\* the issue as buildAlert leaves it, with what the loop b did
Built(issue, b) == [issue |-> issue, pushed |-> b.pushed, threw |-> b.threw]

\* a buildAlert that marks the issue when it has pushed an alert for it
\* (AlertedAtEnqueue tells it from buildAlert)
buildAlertMarksPushed(cluster, issue, ns, t) ==
  Built(IF BuildAlertFrom(1, cluster, issue, ns).pushed # <<>>
          THEN [issue EXCEPT !.alerted = t] ELSE issue,
        BuildAlertFrom(1, cluster, issue, ns))

\* buildAlert(cluster, issue) at time t: issue.alerted = Date.now() comes
\* first, then the loop
buildAlert(cluster, issue, ns, t) ==
  Built([issue EXCEPT !.alerted = t], BuildAlertFrom(1, cluster, issue, ns))

(***************************************************************************)
(* findIssue, setIssue                                                     *)
(***************************************************************************)
\* a comparison that takes two missing node names for different
\* (NoDuplicateKeys tells it from SameKey)
SameKeyNamedNode(issue, clusterId, type, node) ==
  /\ issue.clusterId = clusterId /\ issue.type = type
  /\ issue.node # UndefinedStr /\ issue.node = node

SameKey(issue, clusterId, type, node) ==
  issue.clusterId = clusterId /\ issue.type = type /\ issue.node = node

Key(clusterId, type, node) == [clusterId |-> clusterId, type |-> type, node |-> node]
KeyOf(issue) == Key(issue.clusterId, issue.type, issue.node)

\* the index of the first issue with the key, 0 when there is none
findIssue(iss, clusterId, type, node) ==
  IF \E k \in 1..Len(iss) : SameKey(iss[k], clusterId, type, node)
    THEN CHOOSE k \in 1..Len(iss) :
           /\ SameKey(iss[k], clusterId, type, node)
           /\ \A j \in 1..(k - 1) : ~SameKey(iss[j], clusterId, type, node)
    ELSE 0

\* what a setIssue call for the key is about to find in iss at time t: whether
\* the issue exists and which of the fields that decide the alert are set
Found(iss, key, t) ==
  LET k == findIssue(iss, key.clusterId, key.type, key.node) IN
  IF k = 0
    THEN [key |-> key, existed |-> FALSE, acknowledged |-> FALSE, alerted |-> FALSE,
          ignore |-> "no"]
    ELSE [key |-> key, existed |-> TRUE,
          acknowledged |-> iss[k].acknowledged # Undefined,
          alerted |-> iss[k].alerted # Undefined,
          ignore |-> IF iss[k].ignoreUntil = Undefined THEN "no"
                     ELSE IF iss[k].ignoreUntil = Forever THEN "forever"
                     ELSE IF t > iss[k].ignoreUntil THEN "expired"
                     ELSE "until"]

\* the object a fetch handler passes to setIssue
NewIssue(type, node, value) == [type |-> type, node |-> node, value |-> value]

\* "build issue": the fields setIssue adds to newIssue
BuiltIssue(cluster, newIssue) ==
  LET it   == issueTypes[newIssue.type]
      base == [type         |-> newIssue.type,
               node         |-> newIssue.node,
               value        |-> newIssue.value,
               text         |-> it.text,
               title        |-> it.name,
               severity     |-> it.severity,
               clusterId    |-> cluster.id,
               cluster      |-> cluster.title,
               message      |-> formatIssueMessage(
                                 [type |-> newIssue.type, node |-> newIssue.node,
                                  value |-> newIssue.value, text |-> it.text]),
               firstNoticed |-> Undefined,
               lastNoticed  |-> Undefined,
               acknowledged |-> Undefined,
               ignoreUntil  |-> Undefined,
               alerted      |-> Undefined]
  IN  base

\* an expiry test that does not wait for ignoreUntil to pass
\* (IgnoreUntilThenAlertOnce tells it from IgnoreExpired)
IgnoreExpiredAtOnce(issue, t) ==
  issue.ignoreUntil # Undefined /\ issue.ignoreUntil # Forever

\* an expiry test without the -1 case
\* (IgnoredForeverSilentWhileListed tells it from IgnoreExpired)
IgnoreExpiredForeverToo(issue, t) ==
  issue.ignoreUntil # Undefined /\ t > issue.ignoreUntil

\* the ignore has expired: Date.now() > issue.ignoreUntil && issue.ignoreUntil !== -1
IgnoreExpired(issue, t) ==
  issue.ignoreUntil # Undefined /\ t > issue.ignoreUntil /\ issue.ignoreUntil # Forever

\* an eligibility test without !issue.alerted
\* (DetectionAlertsOnce tells it from Eligible)
EligibleThoughAlerted(issue) ==
  issue.acknowledged = Undefined /\ issue.ignoreUntil = Undefined

\* an eligibility test without !issue.acknowledged
\* (AcknowledgedStaysSilent tells it from Eligible)
EligibleThoughAcknowledged(issue) ==
  issue.ignoreUntil = Undefined /\ issue.alerted = Undefined

\* !issue.acknowledged && !issue.ignoreUntil && !issue.alerted
Eligible(issue) ==
  issue.acknowledged = Undefined /\ issue.ignoreUntil = Undefined /\ issue.alerted = Undefined

\* a refresh that stamps the issue as if it were new
\* (NoticedTimesKept tells it from Noticed)
NoticedAsNew(issue, t) ==
  [(IF IgnoreExpired(issue, t)
      THEN [issue EXCEPT !.ignoreUntil = Undefined, !.alerted = Undefined]
      ELSE issue) EXCEPT !.firstNoticed = t, !.lastNoticed = t]

\* the issue of the loop after the expiry test and issue.lastNoticed = Date.now()
Noticed(issue, t) ==
  [(IF IgnoreExpired(issue, t)
      THEN [issue EXCEPT !.ignoreUntil = Undefined, !.alerted = Undefined]
      ELSE issue) EXCEPT !.lastNoticed = t]

\* the index of the first issue with the key from index k on, 0 when there
\* is none
NextSame(k, iss, clusterId, type, node) ==
  IF \E j \in k..Len(iss) : SameKey(iss[j], clusterId, type, node)
    THEN CHOOSE j \in k..Len(iss) :
           /\ SameKey(iss[j], clusterId, type, node)
           /\ \A i \in k..(j - 1) : ~SameKey(iss[i], clusterId, type, node)
    ELSE 0

\* existingIssue = true
Existing(r) == [r EXCEPT !.existing = TRUE]

RECURSIVE UpdateExisting(_, _, _, _, _, _, _)
\* the loop after buildAlert has run (b) for the issue at m: a buildAlert
\* that throws ends the loop and setIssue
AfterBuildAlert(b, m, iss, al, cluster, newIssue, ns, t) ==
  IF b.threw
    THEN [issues |-> [iss EXCEPT ![m] = b.issue], alerts |-> al \o b.pushed,
          threw |-> TRUE, existing |-> TRUE]
    ELSE Existing(UpdateExisting(m + 1, [iss EXCEPT ![m] = b.issue], al \o b.pushed,
                                 cluster, newIssue, ns, t))

\* a loop body that gives the issue the value of the new detection
\* (RefreshKeepsCreationFields tells it from UpdateAt)
UpdateAtNewValue(m, iss, al, cluster, newIssue, ns, t) ==
  IF m = 0 THEN [issues |-> iss, alerts |-> al, threw |-> FALSE, existing |-> FALSE]
  ELSE IF Eligible(Noticed(iss[m], t))
    THEN AfterBuildAlert(buildAlert(cluster, [Noticed(iss[m], t) EXCEPT !.value = newIssue.value],
                                    ns, t),
                         m, iss, al, cluster, newIssue, ns, t)
    ELSE Existing(UpdateExisting(m + 1,
                                 [iss EXCEPT ![m] = [Noticed(iss[m], t) EXCEPT
                                                       !.value = newIssue.value]],
                                 al, cluster, newIssue, ns, t))

\* the body of the loop for the issue at m, the next with the key (0: the
\* loop is over)
UpdateAt(m, iss, al, cluster, newIssue, ns, t) ==
  IF m = 0 THEN [issues |-> iss, alerts |-> al, threw |-> FALSE, existing |-> FALSE]
  ELSE IF Eligible(Noticed(iss[m], t))
    THEN AfterBuildAlert(buildAlert(cluster, Noticed(iss[m], t), ns, t),
                         m, iss, al, cluster, newIssue, ns, t)
    ELSE Existing(UpdateExisting(m + 1, [iss EXCEPT ![m] = Noticed(iss[m], t)], al,
                                 cluster, newIssue, ns, t))

\* the loop "don't duplicate existing issues, update them" from index k on
UpdateExisting(k, iss, al, cluster, newIssue, ns, t) ==
  UpdateAt(NextSame(k, iss, cluster.id, newIssue.type, newIssue.node),
           iss, al, cluster, newIssue, ns, t)

\* issues.push(newIssue); buildAlert(cluster, newIssue), b being the latter
PushNew(b, iss, al) ==
  [issues |-> Append(iss, b.issue), alerts |-> al \o b.pushed, threw |-> b.threw]

\* setIssue after the loop u: if (!existingIssue) { ... }
AfterUpdate(u, iss, al, cluster, newIssue, ns, t) ==
  IF u.threw \/ u.existing THEN [issues |-> u.issues, alerts |-> u.alerts, threw |-> u.threw]
  ELSE PushNew(buildAlert(cluster,
                          [BuiltIssue(cluster, newIssue) EXCEPT !.firstNoticed = t,
                                                                !.lastNoticed = t],
                          ns, t),
               iss, al)

\* setIssue(cluster, newIssue) at time t on the issue list iss and the alert
\* list al: the lists after it, and whether it threw
setIssue(iss, al, cluster, newIssue, ns, t) ==
  AfterUpdate(UpdateExisting(1, iss, al, cluster, newIssue, ns, t),
              iss, al, cluster, newIssue, ns, t)

(***************************************************************************)
(* getGeneralSetting, cleanUpIssues                                        *)
(***************************************************************************)
\* the default, unless the settings hold a truthy value
getGeneralSetting(gen, type) ==
  IF gen[type] # Undefined THEN gen[type] ELSE defaults.general[type]

\* Date.now() - issue.lastNoticed || issue.firstNoticed
TimeSinceLastNoticed(issue, t) ==
  IF t - issue.lastNoticed # 0 THEN t - issue.lastNoticed ELSE issue.firstNoticed

\* a test that removes acknowledged issues only
\* (CeasedIssueEventuallyRemoved tells it from Removable)
RemovableAcknowledgedOnly(issue, gen, t) ==
  /\ issue.acknowledged # Undefined
  /\ TimeSinceLastNoticed(issue, t)
       > getGeneralSetting(gen, "removeAcknowledgedAfter") * MsPerMinute

Removable(issue, gen, t) ==
  LET removeIssuesAfter       == getGeneralSetting(gen, "removeIssuesAfter") * MsPerMinute
      removeAcknowledgedAfter == getGeneralSetting(gen, "removeAcknowledgedAfter") * MsPerMinute
  IN  \/ issue.acknowledged = Undefined /\ TimeSinceLastNoticed(issue, t) > removeIssuesAfter
      \/ issue.acknowledged # Undefined /\ TimeSinceLastNoticed(issue, t) > removeAcknowledgedAfter

\* if the issue was acknowledged but still persists, unacknowledge and alert again
AckExpired(issue, gen, t) ==
  /\ issue.acknowledged # Undefined
  /\ t - issue.acknowledged > getGeneralSetting(gen, "removeAcknowledgedAfter") * MsPerMinute

Unacknowledge(issue) == [issue EXCEPT !.alerted = Undefined, !.acknowledged = Undefined]

RECURSIVE CleanFrom(_, _, _, _)
\* the while (len--) loop from index len down: m is the next issue the loop
\* changes.  A removed issue is spliced out (the unacknowledge that follows
\* acts on the removed object only).
CleanFrom(len, iss, gen, t) ==
  LET touched == {j \in 1..len : Removable(iss[j], gen, t) \/ AckExpired(iss[j], gen, t)} IN
  IF touched = {} THEN iss
  ELSE LET m    == CHOOSE j \in touched : \A i \in touched : j >= i
           next == IF Removable(iss[m], gen, t)
                     THEN SubSeq(iss, 1, m - 1) \o SubSeq(iss, m + 1, Len(iss))
                     ELSE [iss EXCEPT ![m] = Unacknowledge(iss[m])]
       IN  CleanFrom(m - 1, next, gen, t)

cleanUpIssues(iss, gen, t) ==
  [issues        |-> CleanFrom(Len(iss), iss, gen, t),
   issuesRemoved |-> \E k \in 1..Len(iss) : Removable(iss[k], gen, t)]

(***************************************************************************)
(* Fetch results                                                           *)
(***************************************************************************)
\* what the health request of a cluster can end with: a body that parses to
\* a health document, a body JSON.parse rejects, the body "null", or a
\* rejection (network error, timeout, non-2xx) with its message
HealthDoc(status) == [kind |-> "ok", status |-> status, number_of_nodes |-> 3,
                      number_of_data_nodes |-> 2, message |-> ""]
HealthResults ==
  {HealthDoc("green"), HealthDoc("red"),
   [kind |-> "unparsable", status |-> "", number_of_nodes |-> 0,
    number_of_data_nodes |-> 0, message |-> ""],
   [kind |-> "null", status |-> "", number_of_nodes |-> 0,
    number_of_data_nodes |-> 0, message |-> ""]}
  \cup {[kind |-> "error", status |-> "", number_of_nodes |-> 0,
         number_of_data_nodes |-> 0, message |-> m] : m \in ErrorTexts}

\* one element of stats.data; currentTime is in seconds
Stat(nodeName, currentTime, packets, esDropped) ==
  [nodeName |-> nodeName, currentTime |-> currentTime,
   deltaPacketsPerSec |-> packets, deltaESDroppedPerSec |-> esDropped,
   deltaBytesPerSec |-> 100, deltaTotalDroppedPerSec |-> 1]

StatsResult(kind, data, message) == [kind |-> kind, data |-> data, message |-> message]

\* the condition (now - stat.currentTime) > outOfDate of getStats, with
\* now = Date.now() / 1000 taken at the start of the fetch (startedAt, ms)
\* and outOfDate = getGeneralSetting('outOfDate') * 1000; both sides are
\* multiplied by 1000 here so that the division leaves no fraction
StatOutOfDate(stat, startedAt, gen) ==
  startedAt - stat.currentTime * 1000 > getGeneralSetting(gen, "outOfDate") * 1000 * 1000

\* the setIssue calls of the "Look for issues" loop for one stat, in order
StatDetections(stat, startedAt, gen) ==
  (IF StatOutOfDate(stat, startedAt, gen)
     THEN <<NewIssue("outOfDate", stat.nodeName, NumValue(stat.currentTime * 1000))>>
     ELSE <<>>)
  \o (IF stat.deltaPacketsPerSec = 0
        THEN <<NewIssue("noPackets", stat.nodeName, NoValue)>> ELSE <<>>)
  \o (IF stat.deltaESDroppedPerSec > 0
        THEN <<NewIssue("esDropped", stat.nodeName, NumValue(stat.deltaESDroppedPerSec))>>
        ELSE <<>>)

RECURSIVE DataDetections(_, _, _)
DataDetections(data, startedAt, gen) ==
  IF data = <<>> THEN <<>>
  ELSE StatDetections(Head(data), startedAt, gen)
         \o DataDetections(Tail(data), startedAt, gen)

RECURSIVE SumOf(_, _)
\* cluster.deltaBPS += stat.deltaBytesPerSec over stats.data
SumOf(data, field) ==
  IF data = <<>> THEN 0 ELSE Head(data)[field] + SumOf(Tail(data), field)

\* the result of one setIssue call
Called(r) == [issues |-> r.issues, alerts |-> r.alerts, threw |-> r.threw, calls |-> 1]

\* n more setIssue calls made
Counted(n, r) == [r EXCEPT !.calls = @ + n]

RECURSIVE SetIssues(_, _, _, _, _, _)
\* the calls for rest after the calls r before them: a call that throws
\* ends the handler's loop
AfterSetIssues(r, rest, cluster, ns, t) ==
  IF r.threw THEN r
  ELSE Counted(r.calls, SetIssues(rest, r.issues, r.alerts, cluster, ns, t))

\* the consecutive setIssue calls of one handler, in the order of dets, and
\* how many were made (the list is taken by halves, one after the other,
\* which keeps the evaluation of a long list shallow)
SetIssues(dets, iss, al, cluster, ns, t) ==
  IF dets = <<>> THEN [issues |-> iss, alerts |-> al, threw |-> FALSE, calls |-> 0]
  ELSE IF Len(dets) = 1 THEN Called(setIssue(iss, al, cluster, dets[1], ns, t))
  ELSE AfterSetIssues(SetIssues(SubSeq(dets, 1, Len(dets) \div 2), iss, al, cluster, ns, t),
                      SubSeq(dets, Len(dets) \div 2 + 1, Len(dets)), cluster, ns, t)

(***************************************************************************)
(* The fetch handlers                                                      *)
(***************************************************************************)
Outcome(cluster, iss, al, resolved, detected) ==
  [cluster |-> cluster, issues |-> iss, alerts |-> al, resolved |-> resolved,
   detected |-> detected]

EsDown(cluster) == Key(cluster.id, "esDown", UndefinedStr)
EsRed(cluster) == Key(cluster.id, "esRed", UndefinedStr)

\* a .catch after its setIssue call r: cluster.healthError or
\* cluster.statsError = message, then resolve(); when setIssue throws, the
\* promise is never resolved
Caught(r, cluster, field, message, detected) ==
  IF r.threw THEN Outcome(cluster, r.issues, r.alerts, FALSE, detected)
  ELSE Outcome([cluster EXCEPT ![field] = message], r.issues, r.alerts, TRUE, detected)

\* the .catch of getHealth
CatchHealth(cluster, message, iss, al, ns, t, detected) ==
  Caught(setIssue(iss, al, cluster, NewIssue("esDown", UndefinedStr, StrValue(message)), ns, t),
         cluster, "healthError", message, detected \cup {EsDown(cluster)})

\* if (cluster.status === 'red') setIssue(...), r being the call: what it
\* throws goes to the .catch
RedOutcome(r, cluster, ns, t) ==
  IF r.threw
    THEN CatchHealth(cluster, TypeErrorText, r.issues, r.alerts, ns, t, {EsRed(cluster)})
    ELSE Outcome(cluster, r.issues, r.alerts, TRUE, {EsRed(cluster)})

\* the .then of getHealth once the cluster has the fields of the document
HealthUpdated(cluster, iss, al, ns, t) ==
  IF cluster.status = "red"
    THEN RedOutcome(setIssue(iss, al, cluster, NewIssue("esRed", UndefinedStr, NoValue), ns, t),
                    cluster, ns, t)
    ELSE Outcome(cluster, iss, al, TRUE, {})

\* a handler that takes a body it cannot parse for a failed request
\* (ParseFailureRaisesNoIssue tells it from HealthOutcome)
HealthOutcomeParseIsDown(cluster, result, iss, al, ns, t) ==
  CASE result.kind \in {"error", "unparsable"} ->
         CatchHealth(cluster, "ES health parse failure", iss, al, ns, t, {})
    [] result.kind = "null" ->
         Outcome([cluster EXCEPT !.healthError = UndefinedStr], iss, al, TRUE, {})
    [] result.kind = "ok" ->
         HealthUpdated([cluster EXCEPT !.healthError = UndefinedStr,
                                       !.status = result.status,
                                       !.totalNodes = result.number_of_nodes,
                                       !.dataNodes = result.number_of_data_nodes],
                       iss, al, ns, t)

\* getHealth: the .then of the request, and the .catch after it, which also
\* takes what the .then throws
HealthOutcome(cluster, result, iss, al, ns, t) ==
  CASE result.kind = "error" -> CatchHealth(cluster, result.message, iss, al, ns, t, {})
    [] result.kind = "unparsable" ->
         Outcome([cluster EXCEPT !.healthError = "ES health parse failure"], iss, al, TRUE, {})
    [] result.kind = "null" ->
         Outcome([cluster EXCEPT !.healthError = UndefinedStr], iss, al, TRUE, {})
    [] result.kind = "ok" ->
         HealthUpdated([cluster EXCEPT !.healthError = UndefinedStr,
                                       !.status = result.status,
                                       !.totalNodes = result.number_of_nodes,
                                       !.dataNodes = result.number_of_data_nodes],
                       iss, al, ns, t)

\* a .catch that files the failure of the stats request under a node
\* (FailuresConverge tells it from CatchStats)
CatchStatsOfNode(cluster, message, iss, al, ns, t, detected) ==
  Caught(setIssue(iss, al, cluster, NewIssue("esDown", NodeName(1), StrValue(message)), ns, t),
         cluster, "statsError", message, detected \cup {EsDown(cluster)})

\* the .catch of getStats
CatchStats(cluster, message, iss, al, ns, t, detected) ==
  Caught(setIssue(iss, al, cluster, NewIssue("esDown", UndefinedStr, StrValue(message)), ns, t),
         cluster, "statsError", message, detected \cup {EsDown(cluster)})

\* the keys of the first n setIssue calls of dets
DetectedKeys(cluster, dets, n) == {Key(cluster.id, dets[k].type, dets[k].node) : k \in 1..n}

\* the "Look for issues" loop r of getStats: what it throws goes to the .catch
StatsIssues(r, dets, cluster, ns, t) ==
  IF r.threw
    THEN CatchStats(cluster, TypeErrorText, r.issues, r.alerts, ns, t,
                    DetectedKeys(cluster, dets, r.calls))
    ELSE Outcome(cluster, r.issues, r.alerts, TRUE, DetectedKeys(cluster, dets, r.calls))

\* the .then of getStats once the cluster has its sums, dets being the
\* setIssue calls the document asks for
StatsUpdated(cluster, dets, iss, al, ns, t) ==
  StatsIssues(SetIssues(dets, iss, al, cluster, ns, t), dets, cluster, ns, t)

\* getStats: startedAt is Date.now() at the start of the fetch
StatsOutcome(cluster, result, startedAt, iss, al, ns, gen, t) ==
  CASE result.kind = "error" -> CatchStats(cluster, result.message, iss, al, ns, t, {})
    [] result.kind = "unparsable" ->
         Outcome([cluster EXCEPT !.statsError = "ES stats parse failure"], iss, al, TRUE, {})
    [] result.kind = "nodata" ->
         Outcome([cluster EXCEPT !.statsError = UndefinedStr], iss, al, TRUE, {})
    [] result.kind = "ok" ->
         StatsUpdated([cluster EXCEPT !.statsError = UndefinedStr,
                                      !.deltaBPS = SumOf(result.data, "deltaBytesPerSec"),
                                      !.deltaTDPS = SumOf(result.data, "deltaTotalDroppedPerSec")],
                      DataDetections(result.data, startedAt, gen), iss, al, ns, t)

(***************************************************************************)
(* The files.  fs.writeFile returns at once; the file changes and the      *)
(* callback runs later, the calls in flight ending in any order.  A write  *)
(* is taken to replace the whole document (the store is atomic).  Only the *)
(* contents of the issues file are followed, and only where followed is    *)
(* set: elsewhere the files are left out.                                  *)
(***************************************************************************)
\* fs.writeFile(app.get('issuesfile'), JSON.stringify(issues, null, 2), ...)
\* called by by
IssuesWrite(by, list) == [file |-> "issuesfile", by |-> by, data |-> list]

\* fs.writeFile(app.get('file'), JSON.stringify(parliament, null, 2), ...)
ParliamentWrite(by) == [file |-> "file", by |-> by, data |-> <<>>]

\* failed is history: an fs.writeFile of the issues file has ended in an error
NoDisk == [followed |-> FALSE, issuesfile |-> <<>>, writes |-> {}, failed |-> FALSE]
EmptyDisk == [NoDisk EXCEPT !.followed = TRUE]

\* the disk d once the calls ws have been made
Written(d, ws) == IF d.followed THEN [d EXCEPT !.writes = @ \cup ws] ELSE d

(***************************************************************************)
(* Poll cycles                                                             *)
(***************************************************************************)
FreeCycle == [pending |-> 0, issuesRemoved |-> FALSE]

\* promises that include the stats of a multiviewer
\* (ExemptClustersNotPolled tells it from CycleFetches)
CycleFetchesOfAll(id, cl, t) ==
  {[cycle |-> id, cluster |-> k, kind |-> "health", startedAt |-> Undefined] :
     k \in {j \in 1..Len(cl) : ~cl[j].disabled}}
  \cup
  {[cycle |-> id, cluster |-> k, kind |-> "stats", startedAt |-> t] :
     k \in {j \in 1..Len(cl) : ~cl[j].disabled}}

\* the promises updateParliament pushes: health for every cluster that is
\* not disabled, stats for those that are neither multiviewer nor disabled
CycleFetches(id, cl, t) ==
  {[cycle |-> id, cluster |-> k, kind |-> "health", startedAt |-> Undefined] :
     k \in {j \in 1..Len(cl) : ~cl[j].disabled}}
  \cup
  {[cycle |-> id, cluster |-> k, kind |-> "stats", startedAt |-> t] :
     k \in {j \in 1..Len(cl) : ~cl[j].multiviewer /\ ~cl[j].disabled}}

\* updateParliament() in cycle slot id: start the fetches, clean up the
\* issues, leave Promise.all waiting
updateParliament(id) ==
  LET new     == CycleFetches(id, clusters, now)
      cleaned == cleanUpIssues(issues, general, now)
  IN  /\ cycles[id].pending = 0
      /\ \A j \in 1..(id - 1) : cycles[j].pending # 0
      /\ fetches' = fetches \cup new
      /\ issues' = cleaned.issues
      /\ cycles' = [cycles EXCEPT ![id] = [pending |-> Cardinality(new),
                                           issuesRemoved |-> cleaned.issuesRemoved]]
      /\ issuesSaved' = IF new = {} /\ cleaned.issuesRemoved THEN cleaned.issues
                        ELSE issuesSaved
      /\ disk' = Written(disk, IF new # {} THEN {}
                               ELSE (IF cleaned.issuesRemoved
                                       THEN {IssuesWrite("updateParliament", cleaned.issues)}
                                       ELSE {})
                                    \cup {ParliamentWrite("updateParliament")})

\* a promise of the cycle of fetch f is settled: resolved, or left pending
\* for ever by a handler that threw.  The last resolve lets Promise.all run
\* the cycle's completion; a cycle with a promise that never resolves never
\* completes, and its other fetches are kept with cycle 0.
Settle(f, resolved) ==
  IF f.cycle = 0
    THEN /\ fetches' = fetches \ {f}
         /\ UNCHANGED <<cycles, hung>>
  ELSE IF resolved
    THEN /\ fetches' = fetches \ {f}
         /\ cycles' = [cycles EXCEPT ![f.cycle] =
                         IF @.pending = 1 THEN FreeCycle
                         ELSE [@ EXCEPT !.pending = @ - 1]]
         /\ UNCHANGED hung
  ELSE /\ fetches' = {IF g.cycle = f.cycle THEN [g EXCEPT !.cycle = 0] ELSE g :
                        g \in fetches \ {f}}
       /\ cycles' = [cycles EXCEPT ![f.cycle] = FreeCycle]
       /\ hung' = TRUE

\* Promise.all of the cycle of fetch f runs its .then once the handler o has
\* resolved the last promise: "save the issues that were removed"
SavesRemoved(f, o) ==
  /\ o.resolved /\ f.cycle # 0
  /\ cycles[f.cycle].pending = 1 /\ cycles[f.cycle].issuesRemoved

\* the list the setIssue calls of a handler gave fs.writeFile last (each call
\* that returns writes the list as it is then): a handler that resolves has
\* returned from its last call, if it made one; thrown is the list for a
\* handler that threw in its .catch
HandlerSaved(o, thrown) ==
  IF ~o.resolved THEN thrown
  ELSE IF o.detected # {} THEN o.issues
  ELSE issuesSaved

\* the list the last setIssue call of a handler gave fs.writeFile, when the
\* handler has returned from one
LastWrite(o) == IF o.resolved /\ o.detected # {} THEN {o.issues} ELSE {}

SetIssueWrites(lists) == {IssuesWrite("setIssue", list) : list \in lists}

\* the fs.writeFile calls of the .then of Promise.all, which runs once the
\* handler o has resolved the last promise of the cycle of fetch f
CompletionWrites(f, o) ==
  IF o.resolved /\ f.cycle # 0 /\ cycles[f.cycle].pending = 1
    THEN (IF cycles[f.cycle].issuesRemoved
            THEN {IssuesWrite("updateParliament", o.issues)} ELSE {})
         \cup {ParliamentWrite("updateParliament")}
    ELSE {}

\* a handler has run for fetch f, o being what it did; loop holds the lists
\* its setIssue calls before the last wrote
Respond(f, o, thrown, loop) ==
  /\ clusters' = [clusters EXCEPT ![f.cluster] = o.cluster]
  /\ issues' = o.issues
  /\ issuesSaved' = IF SavesRemoved(f, o) THEN o.issues ELSE HandlerSaved(o, thrown)
  /\ alerts' = o.alerts
  /\ Settle(f, o.resolved)
  /\ lastDetected' = {Found(issues, key, now) : key \in o.detected}
  /\ disk' = Written(disk, SetIssueWrites(loop \cup LastWrite(o)) \cup CompletionWrites(f, o))
  /\ UNCHANGED <<now, nextPoll, crashed, general, notifiers, defaults, flushes, sentTwice,
                 discarded, ignoredForever>>

\* the response of a health request arrives; a health handler that throws
\* has returned from no setIssue call
HealthResponse(f, result) ==
  /\ ~crashed
  /\ f \in fetches /\ f.kind = "health"
  /\ Respond(f, HealthOutcome(clusters[f.cluster], result, issues, alerts, notifiers, now),
             issuesSaved, {})

\* the list as the call before the call number calls of the loop over dets
\* wrote it
SavedBefore(dets, calls, cluster) ==
  IF calls > 1
    THEN SetIssues(SubSeq(dets, 1, calls - 1), issues, alerts, cluster, notifiers, now).issues
    ELSE issuesSaved

\* what a stats handler that throws in its .catch has written: the calls of
\* the "Look for issues" loop that returned before the one that threw
LoopSaved(f, result) ==
  IF result.kind # "ok" THEN issuesSaved
  ELSE SavedBefore(DataDetections(result.data, f.startedAt, general),
                   SetIssues(DataDetections(result.data, f.startedAt, general),
                             issues, alerts, clusters[f.cluster], notifiers, now).calls,
                   clusters[f.cluster])

\* the calls of SetIssues result r that returned
Returned(r) == IF r.threw THEN r.calls - 1 ELSE r.calls

\* the lists the calls of the "Look for issues" loop that returned gave
\* fs.writeFile, each the list as it was at the end of the call
LoopWrites(f, result) ==
  IF result.kind # "ok" THEN {}
  ELSE {SetIssues(SubSeq(DataDetections(result.data, f.startedAt, general), 1, k),
                  issues, alerts, clusters[f.cluster], notifiers, now).issues :
          k \in 1..Returned(SetIssues(DataDetections(result.data, f.startedAt, general),
                                      issues, alerts, clusters[f.cluster], notifiers, now))}

\* the response of a stats request arrives
StatsResponse(f, result) ==
  /\ ~crashed
  /\ f \in fetches /\ f.kind = "stats"
  /\ Respond(f, StatsOutcome(clusters[f.cluster], result, f.startedAt, issues, alerts,
                             notifiers, general, now),
             LoopSaved(f, result), LoopWrites(f, result))

(***************************************************************************)
(* The alert queue                                                         *)
(***************************************************************************)
\* sendAlerts(): one timer per alert of the list as it is now, the i-th
\* (from 0) due 250 * i ms from now; next is the index of the next to fire.
\* last holds the message of the alert the flush sent last (history, not a
\* field of the program).
NewFlush(al, t) == [start |-> t, len |-> Len(al), next |-> 0, last |-> <<>>]

Deadline(fl) == fl.start + AlertDelay * fl.next

\* processAlerts(): sort and send, when the list is not empty
processAlerts(al, fl, t) ==
  IF al # <<>>
    THEN [alerts |-> SortAlerts(al), flushes |-> Append(fl, NewFlush(al, t))]
    ELSE [alerts |-> al, flushes |-> fl]

\* the setInterval callback: updateParliament(); processAlerts();
IntervalTick(id) ==
  LET p == processAlerts(alerts, flushes, now) IN
  /\ ~crashed
  /\ now >= nextPoll
  /\ updateParliament(id)
  /\ alerts' = p.alerts
  /\ flushes' = p.flushes
  /\ nextPoll' = now + PollInterval
  /\ lastDetected' = {}
  /\ UNCHANGED <<now, crashed, clusters, general, notifiers, defaults, hung, sentTwice, discarded,
                 ignoredForever>>

\* updateParliament() called outside the interval: at startup, and by the
\* routes that edit the parliament or its settings
ApiUpdate(id) ==
  /\ ~crashed
  /\ updateParliament(id)
  /\ lastDetected' = {}
  /\ UNCHANGED <<now, nextPoll, crashed, clusters, general, notifiers, defaults, alerts, flushes,
                 hung, sentTwice, discarded, ignoredForever>>

RemoveAt(s, k) == SubSeq(s, 1, k - 1) \o SubSeq(s, k + 1, Len(s))

\* the timer of flush k that is due fires: it reads alerts[i] from the list
\* as it is now and calls sendAlert; reading a property of undefined throws
\* out of the timer callback and ends the process.  The last timer of the
\* flush resolves the promise, whose .then clears the list.
TimerFire(k) ==
  LET fl == flushes[k]
      i  == fl.next + 1
  IN  /\ ~crashed
      /\ k \in 1..Len(flushes)
      /\ Deadline(fl) <= now
      /\ \A j \in 1..Len(flushes) : Deadline(fl) <= Deadline(flushes[j])
      /\ IF i > Len(alerts)
           THEN /\ crashed' = TRUE
                /\ UNCHANGED <<alerts, flushes, sentTwice, discarded>>
           ELSE /\ crashed' = FALSE
                /\ sentTwice' = (sentTwice \/ alerts[i].sends > 0)
                /\ IF i = fl.len
                     THEN /\ alerts' = <<>>
                          /\ flushes' = RemoveAt(flushes, k)
                          /\ discarded' = (discarded \/ \E j \in 1..Len(alerts) :
                                                          j # i /\ alerts[j].sends = 0)
                     ELSE /\ alerts' = [alerts EXCEPT ![i].sends = @ + 1]
                          /\ flushes' = [flushes EXCEPT ![k].next = @ + 1,
                                                        ![k].last = <<alerts[i].message>>]
                          /\ UNCHANGED discarded
      /\ lastDetected' = {}
      /\ UNCHANGED <<now, nextPoll, clusters, general, notifiers, defaults, issues, issuesSaved,
                     fetches, cycles, hung, ignoredForever, disk>>

\* the timer of flush k that is due fires and sendAlert throws: nothing
\* catches the exception in the timer callback, the process exits
SendAlertThrows(k) ==
  /\ ~crashed
  /\ k \in 1..Len(flushes)
  /\ Deadline(flushes[k]) <= now
  /\ \A j \in 1..Len(flushes) : Deadline(flushes[k]) <= Deadline(flushes[j])
  /\ flushes[k].next + 1 <= Len(alerts)
  /\ crashed' = TRUE
  /\ lastDetected' = {}
  /\ UNCHANGED <<now, nextPoll, clusters, general, notifiers, defaults, issues, issuesSaved, alerts,
                 flushes, fetches, cycles, hung, sentTwice, discarded, ignoredForever, disk>>

\* time passes: to the next timer that is armed or, when none is, to the
\* next multiple of TickMinutes since the start
TickStep == TickMinutes * MsPerMinute

Tick(maxTicks) ==
  /\ ~crashed
  /\ IF flushes # <<>>
       THEN /\ \A j \in 1..Len(flushes) : Deadline(flushes[j]) > now
            /\ \E k \in 1..Len(flushes) :
                 /\ \A j \in 1..Len(flushes) : Deadline(flushes[k]) <= Deadline(flushes[j])
                 /\ now' = Deadline(flushes[k])
       ELSE /\ now' = Epoch + ((now - Epoch) \div TickStep + 1) * TickStep
            /\ now' - Epoch <= maxTicks * TickStep
  /\ lastDetected' = {}
  /\ UNCHANGED <<nextPoll, crashed, clusters, general, notifiers, defaults, issues, issuesSaved,
                 alerts, flushes, fetches, cycles, hung, sentTwice, discarded,
                 ignoredForever, disk>>

(***************************************************************************)
(* The issue routes (requests that passed verifyToken)                     *)
(***************************************************************************)
\* a lookup by cluster alone
\* (RoutesTransitionMatching tells it from Matched)
MatchedByCluster(iss, keys) ==
  {k \in 1..Len(iss) : \E j \in 1..Len(keys) : iss[k].clusterId = keys[j].clusterId}

\* the indexes findIssue returns for the elements of req.body.issues
Matched(iss, keys) ==
  {findIssue(iss, keys[j].clusterId, keys[j].type, keys[j].node) : j \in 1..Len(keys)} \ {0}

MatchedKeys(iss, keys) == {KeyOf(iss[k]) : k \in Matched(iss, keys)}

\* the lists of issues a request names: one issue of the list, all of them,
\* or an issue that is not in the list
KeyLists(iss) ==
  {<<KeyOf(iss[k])>> : k \in 1..Len(iss)}
  \cup {[k \in 1..Len(iss) |-> KeyOf(iss[k])]}
  \cup {<<Key(0, "esDropped", NodeName(9))>>}

\* the issue a request names: one of the list, or one that is not in it
Keys(iss) == {KeyOf(iss[k]) : k \in 1..Len(iss)} \cup {Key(0, "esDropped", NodeName(9))}

\* count of a route's loop over req.body.issues: count++ for every element
\* findIssue finds an issue for
RouteCount(iss, keys) ==
  Cardinality({j \in 1..Len(keys) :
                 findIssue(iss, keys[j].clusterId, keys[j].type, keys[j].node) # 0})

\* if (!count) { ... return next(error); }
RouteFails(iss, keys) == RouteCount(iss, keys) = 0

\* writeIssues: fs.writeFile of the issue list as the route leaves it, which
\* a route reaches when it has found an issue of its request
writeIssues(found) ==
  /\ issuesSaved' = IF found THEN issues' ELSE issuesSaved
  /\ disk' = Written(disk, IF found THEN {IssuesWrite("writeIssues", issues')} ELSE {})

IssueRoute ==
  /\ ~crashed
  /\ lastDetected' = {}
  /\ UNCHANGED <<now, nextPoll, crashed, clusters, general, notifiers, defaults, alerts, flushes,
                 fetches, cycles, hung, sentTwice, discarded>>

\* an acknowledgement that also lets the issue alert again
\* (RoutesTouchOneField tells it from acknowledgeIssues)
acknowledgeIssuesAlertAgain(keys) ==
  /\ keys # <<>>
  /\ issues' = [k \in 1..Len(issues) |->
                  IF k \in Matched(issues, keys)
                    THEN [issues[k] EXCEPT !.acknowledged = now, !.alerted = Undefined]
                    ELSE issues[k]]
  /\ writeIssues(Matched(issues, keys) # {})
  /\ IssueRoute
  /\ UNCHANGED ignoredForever

\* PUT /acknowledgeIssues
acknowledgeIssues(keys) ==
  /\ keys # <<>>
  /\ issues' = [k \in 1..Len(issues) |->
                  IF k \in Matched(issues, keys)
                    THEN [issues[k] EXCEPT !.acknowledged = now] ELSE issues[k]]
  /\ writeIssues(Matched(issues, keys) # {})
  /\ IssueRoute
  /\ UNCHANGED ignoredForever

\* let ms = req.body.ms || 3600000; -1 means ignore it forever
IgnoreUntil(ms, t) ==
  LET given == IF ms # 0 THEN ms ELSE DefaultIgnoreMs
  IN  IF given = Forever THEN Forever ELSE t + given

\* PUT /ignoreIssues
ignoreIssues(keys, ms) ==
  /\ keys # <<>>
  /\ issues' = [k \in 1..Len(issues) |->
                  IF k \in Matched(issues, keys)
                    THEN [issues[k] EXCEPT !.ignoreUntil = IgnoreUntil(ms, now)]
                    ELSE issues[k]]
  /\ writeIssues(Matched(issues, keys) # {})
  /\ IssueRoute
  /\ ignoredForever' = IF IgnoreUntil(ms, now) = Forever
                         THEN ignoredForever \cup MatchedKeys(issues, keys)
                         ELSE ignoredForever \ MatchedKeys(issues, keys)

\* PUT /removeIgnoreIssues
removeIgnoreIssues(keys) ==
  /\ keys # <<>>
  /\ issues' = [k \in 1..Len(issues) |->
                  IF k \in Matched(issues, keys)
                    THEN [issues[k] EXCEPT !.ignoreUntil = Undefined, !.alerted = Undefined]
                    ELSE issues[k]]
  /\ writeIssues(Matched(issues, keys) # {})
  /\ IssueRoute
  /\ ignoredForever' = ignoredForever \ MatchedKeys(issues, keys)

\* PUT /groups/:groupId/clusters/:clusterId/removeIssue
removeIssue(key) ==
  /\ issues' = SelectSeq(issues, LAMBDA i : ~SameKey(i, key.clusterId, key.type, key.node))
  /\ writeIssues(findIssue(issues, key.clusterId, key.type, key.node) # 0)
  /\ IssueRoute
  /\ ignoredForever' = ignoredForever \ {key}

\* PUT /issues/removeAllAcknowledgedIssues
removeAllAcknowledgedIssues ==
  /\ issues' = SelectSeq(issues, LAMBDA i : i.acknowledged = Undefined)
  /\ writeIssues(\E k \in 1..Len(issues) : issues[k].acknowledged # Undefined)
  /\ IssueRoute
  /\ ignoredForever' = ignoredForever \ {KeyOf(issues[k]) : k \in
                                           {j \in 1..Len(issues) : issues[j].acknowledged # Undefined}}

(***************************************************************************)
(* The initial state: the server listens, initializeParliament has run     *)
(***************************************************************************)
Cluster(id, title, disabled, multiviewer) ==
  [id |-> id, title |-> title, disabled |-> disabled, multiviewer |-> multiviewer,
   status |-> UndefinedStr, totalNodes |-> Undefined, dataNodes |-> Undefined,
   healthError |-> UndefinedStr, statsError |-> UndefinedStr,
   deltaBPS |-> Undefined, deltaTDPS |-> Undefined]

AllAlerts == [t \in IssueTypeIds |-> TRUE]

NotifierSetting(on, al, fields) ==
  [exists |-> TRUE, on |-> on, alerts |-> al, fields |-> fields]

\* the entry initializeParliament builds for a notifier the settings do not
\* hold: not switched on, every alert on, every field with an empty value
Backfilled(n) ==
  NotifierSetting(FALSE, AllAlerts,
                  [f \in FieldNames(n) |->
                     LET d == CHOOSE x \in {NotifierFields[n][k] : k \in 1..Len(NotifierFields[n])} :
                                x.name = f
                     IN  Field(d.required, "")])

\* settings.notifiers[n] of a parliament file that holds no entry for n
NoNotifier(n) ==
  [exists |-> FALSE, on |-> FALSE, alerts |-> [t \in IssueTypeIds |-> FALSE],
   fields |-> [f \in FieldNames(n) |-> AbsentField]]

\* a backfill that builds every entry anew
\* (BackfillKeepsEntries tells it from buildNotifiers)
buildNotifiersAnew(ns) == [n \in DOMAIN ns |-> Backfilled(n)]

\* buildNotifiers(), and the same loop of initializeParliament: "if the
\* notifier is not in settings, add it"
buildNotifiers(ns) == [n \in DOMAIN ns |-> IF ns[n].exists THEN ns[n] ELSE Backfilled(n)]

\* notifiers: {} of settingsDefault
DefaultNotifiers == [n \in {"n1", "n2"} |-> NoNotifier(n)]

\* if (!parliament.settings.general.x) { ... = settingsDefault.general.x; }
FilledGeneral(gen) ==
  [k \in DOMAIN gen |-> IF gen[k] = Undefined THEN defaults.general[k] ELSE gen[k]]

\* settingsDefault as the program text has it.  shared names the objects
\* parliament.settings and settingsDefault have in common: "settings" when
\* parliament.settings is settingsDefault itself (no parliament file, or one
\* without settings), "general" and "notifiers" for the two objects in it
\* (a file whose settings lack them).  Before initializeParliament has run
\* shared names what it will then take from settingsDefault.
HardCoded(shared) ==
  [general |-> settingsDefault, notifiers |-> DefaultNotifiers, shared |-> shared]

\* settingsDefault once the settings are gen and ns: an assignment through
\* parliament.settings to an object they have in common shows in both
Synced(def, gen, ns) ==
  [def EXCEPT !.general   = IF "general" \in def.shared THEN gen ELSE @,
              !.notifiers = IF "notifiers" \in def.shared THEN ns ELSE @]

\* parliament.settings.general of a parliament file that holds none
NoGeneral == [k \in DOMAIN settingsDefault |-> Undefined]

\* the state with the clusters cl, the general settings gen and the
\* notifier settings ns, the interval timer due at poll
StartedWith(poll, d, def, cl, gen, ns) ==
  /\ now = Epoch
  /\ nextPoll = poll
  /\ crashed = FALSE
  /\ clusters = cl
  /\ general = gen
  /\ notifiers = ns
  /\ issues = <<>>
  /\ issuesSaved = <<>>
  /\ alerts = <<>>
  /\ flushes = <<>>
  /\ fetches = {}
  /\ cycles = [id \in 1..MaxCycles |-> FreeCycle]
  /\ hung = FALSE
  /\ sentTwice = FALSE
  /\ discarded = FALSE
  /\ lastDetected = {}
  /\ ignoredForever = {}
  /\ disk = d
  /\ defaults = def

\* the state after initializeParliament, with the clusters cl, the general
\* settings gen and the notifier settings ns of the parliament file
InitWith(cl, gen, ns) ==
  StartedWith(Epoch + PollInterval, NoDisk, HardCoded({}), cl, gen, ns)

Within(maxIssues, maxAlerts) == Len(issues') <= maxIssues /\ Len(alerts') <= maxAlerts

HealthError(m) == [kind |-> "error", status |-> "", number_of_nodes |-> 0,
                   number_of_data_nodes |-> 0, message |-> m]

(***************************************************************************)
(* Spec: the life of the issue of one cluster.  The health request ends    *)
(* well, the stats request fails or brings no data; n1 is switched on and  *)
(* configured, n2 is as initializeParliament left it.                      *)
(***************************************************************************)
OneCluster ==
  <<Cluster(0, "A Cluster", FALSE, FALSE), Cluster(1, "B Cluster", TRUE, FALSE)>>

Configured == NotifierSetting(TRUE, AllAlerts, [f \in {"url"} |-> Field(TRUE, "https://hook")])

LifeGeneral == [settingsDefault EXCEPT !.removeIssuesAfter = 30]

LifeHealth == {HealthDoc("green")}
LifeStats == {StatsResult("nodata", <<>>, ""), StatsResult("error", <<>>, "ETIMEDOUT")}

IgnoreDurations == {Forever, TickStep}

Init ==
  InitWith(OneCluster, LifeGeneral,
           [n \in {"n1", "n2"} |-> IF n = "n1" THEN Configured ELSE Backfilled(n)])

Next ==
  \/ IntervalTick(1)
  \/ ApiUpdate(1)
  \/ \E f \in fetches, r \in LifeHealth : HealthResponse(f, r) /\ Within(MaxIssues, MaxAlerts)
  \/ \E f \in fetches, r \in LifeStats : StatsResponse(f, r) /\ Within(MaxIssues, MaxAlerts)
  \/ \E k \in 1..Len(flushes) : TimerFire(k)
  \/ Tick(MaxTicks)
  \/ \E keys \in KeyLists(issues) : acknowledgeIssues(keys)
  \/ \E keys \in KeyLists(issues), ms \in IgnoreDurations : ignoreIssues(keys, ms)
  \/ \E keys \in KeyLists(issues) : removeIgnoreIssues(keys)
  \/ \E key \in Keys(issues) : removeIssue(key)
  \/ removeAllAcknowledgedIssues

Spec == Init /\ [][Next]_vars

(***************************************************************************)
(* SpecDetect: detections only.  No request touches an issue; the health   *)
(* request finds the cluster green or red, the stats request reports one   *)
(* node that receives no packets, or no data.                              *)
(***************************************************************************)
FreshStat(i) == Stat(NodeName(i), Epoch \div 1000, 0, 0)

DetectHealth == {HealthDoc("green"), HealthDoc("red")}
DetectStats == {StatsResult("ok", <<FreshStat(1)>>, ""), StatsResult("nodata", <<>>, "")}

InitDetect == Init

NextDetect ==
  \/ IntervalTick(1)
  \/ ApiUpdate(1)
  \/ \E f \in fetches, r \in DetectHealth : HealthResponse(f, r) /\ Within(MaxIssues, MaxAlerts)
  \/ \E f \in fetches, r \in DetectStats : StatsResponse(f, r) /\ Within(MaxIssues, MaxAlerts)
  \/ \E k \in 1..Len(flushes) : TimerFire(k)
  \/ Tick(MaxTicks)

SpecDetect == InitDetect /\ [][NextDetect]_vars

(***************************************************************************)
(* SpecKeys: the issue list under overlapping poll cycles and every issue  *)
(* route.  The cluster is red and one node receives no packets; no         *)
(* notifier is switched on, so the alert list stays empty.                 *)
(***************************************************************************)
KeysHealth == {HealthDoc("red")}
KeysStats == {StatsResult("ok", <<FreshStat(1)>>, "")}

InitKeys ==
  InitWith(OneCluster, LifeGeneral, [n \in {"n1", "n2"} |-> Backfilled(n)])

NextKeys ==
  \/ \E id \in 1..MaxCycles : ApiUpdate(id)
  \/ \E f \in fetches, r \in KeysHealth : HealthResponse(f, r) /\ Within(MaxIssues, MaxAlerts)
  \/ \E f \in fetches, r \in KeysStats : StatsResponse(f, r) /\ Within(MaxIssues, MaxAlerts)
  \/ Tick(KeysTicks)
  \/ \E keys \in KeyLists(issues) : acknowledgeIssues(keys)
  \/ \E keys \in KeyLists(issues) : ignoreIssues(keys, Forever)
  \/ \E keys \in KeyLists(issues) : removeIgnoreIssues(keys)
  \/ \E key \in Keys(issues) : removeIssue(key)
  \/ removeAllAcknowledgedIssues

SpecKeys == InitKeys /\ [][NextKeys]_vars

(***************************************************************************)
(* SpecNotify: the notifier settings of the parliament file vary.          *)
(***************************************************************************)
\* parliament.settings.notifiers.n1 as the file can hold it: as
\* initializeParliament builds it, configured, with the required field
\* empty, with the field missing, with the esRed alert off
SettingsOfN1 ==
  {Backfilled("n1"),
   Configured,
   NotifierSetting(TRUE, AllAlerts, [f \in {"url"} |-> Field(TRUE, "")]),
   NotifierSetting(TRUE, AllAlerts, [f \in {"url"} |-> AbsentField]),
   NotifierSetting(TRUE, [AllAlerts EXCEPT !["esRed"] = FALSE],
                   [f \in {"url"} |-> Field(TRUE, "https://hook")])}

SettingsOfN2 ==
  {Backfilled("n2"),
   NotifierSetting(TRUE, AllAlerts, [f \in {"to"} |-> Field(FALSE, "")]),
   NotifierSetting(TRUE, AllAlerts, [f \in {"to"} |-> Field(FALSE, "ops")])}

NotifyHealth == {HealthDoc("green"), HealthDoc("red")}
NotifyStats == {StatsResult("nodata", <<>>, "")}

InitNotify ==
  \E s1 \in SettingsOfN1, s2 \in SettingsOfN2 :
    InitWith(OneCluster, settingsDefault, [n \in {"n1", "n2"} |-> IF n = "n1" THEN s1 ELSE s2])

NextNotify ==
  \/ IntervalTick(1)
  \/ ApiUpdate(1)
  \/ \E f \in fetches, r \in NotifyHealth : HealthResponse(f, r) /\ Within(MaxIssues, MaxAlerts)
  \/ \E f \in fetches, r \in NotifyStats : StatsResponse(f, r) /\ Within(MaxIssues, MaxAlerts)
  \/ \E k \in 1..Len(flushes) : TimerFire(k)
  \/ Tick(NotifyTicks)

SpecNotify == InitNotify /\ [][NextNotify]_vars

(***************************************************************************)
(* SpecPacing: the stats documents that arrive before the clock moves hold *)
(* PacingNodes nodes that receive no packets, the later ones hold no data: *)
(* the flush of the alerts lasts longer than the interval.                 *)
(***************************************************************************)
PacingHealth == {HealthDoc("green")}
PacingData == [i \in 1..PacingNodes |-> FreshStat(i)]
PacingStats(kind) == StatsResult(kind, IF kind = "ok" THEN PacingData ELSE <<>>, "")

InitPacing ==
  InitWith(OneCluster, settingsDefault,
           [n \in {"n1", "n2"} |-> IF n = "n1" THEN Configured ELSE Backfilled(n)])

NextPacing ==
  \/ IntervalTick(1)
  \/ ApiUpdate(1)
  \/ \E f \in fetches, r \in PacingHealth :
       HealthResponse(f, r) /\ Within(PacingNodes, PacingNodes)
  \/ \E f \in fetches :
       StatsResponse(f, PacingStats(IF now = Epoch THEN "ok" ELSE "nodata"))
         /\ Within(PacingNodes, PacingNodes)
  \/ \E k \in 1..Len(flushes) : TimerFire(k)
  \/ Tick(PacingTicks)

SpecPacing == InitPacing /\ [][NextPacing]_vars

(***************************************************************************)
(* SpecFail: the requests fail.  The health request ends well or with an   *)
(* error, the stats request brings no data or ends with an error; no       *)
(* request touches an issue.                                               *)
(***************************************************************************)
FailHealth == {HealthDoc("green"), HealthError("ETIMEDOUT")}
FailStats == {StatsResult("nodata", <<>>, ""), StatsResult("error", <<>>, "ETIMEDOUT")}

InitFail == Init

NextFail ==
  \/ IntervalTick(1)
  \/ ApiUpdate(1)
  \/ \E f \in fetches, r \in FailHealth : HealthResponse(f, r) /\ Within(MaxIssues, MaxAlerts)
  \/ \E f \in fetches, r \in FailStats : StatsResponse(f, r) /\ Within(MaxIssues, MaxAlerts)
  \/ \E k \in 1..Len(flushes) : TimerFire(k)
  \/ Tick(MaxTicks)

SpecFail == InitFail /\ [][NextFail]_vars

(***************************************************************************)
(* SpecSend: SpecDetect with a notifier whose sendAlert can throw.         *)
(***************************************************************************)
InitSend == Init

NextSend ==
  \/ IntervalTick(1)
  \/ ApiUpdate(1)
  \/ \E f \in fetches, r \in DetectHealth : HealthResponse(f, r) /\ Within(MaxIssues, MaxAlerts)
  \/ \E f \in fetches, r \in DetectStats : StatsResponse(f, r) /\ Within(MaxIssues, MaxAlerts)
  \/ \E k \in 1..Len(flushes) : TimerFire(k)
  \/ \E k \in 1..Len(flushes) : SendAlertThrows(k)
  \/ Tick(MaxTicks)

SpecSend == InitSend /\ [][NextSend]_vars

(***************************************************************************)
(* SpecOrder: SpecPacing with requests that go wrong when the long flush   *)
(* starts: the responses handled in the millisecond of the first interval  *)
(* find the cluster red and the stats request failed, so that alerts are   *)
(* enqueued between the start of a flush and the start of the next.  No    *)
(* request calls updateParliament after the startup.                       *)
(***************************************************************************)
OrderHealth == {HealthDoc(IF now = Epoch + TickStep THEN "red" ELSE "green")}
OrderStats ==
  {IF now = Epoch THEN PacingStats("ok")
   ELSE IF now = Epoch + TickStep THEN StatsResult("error", <<>>, "ETIMEDOUT")
   ELSE PacingStats("nodata")}

InitOrder == InitPacing

NextOrder ==
  \/ IntervalTick(1)
  \/ ApiUpdate(1) /\ now = Epoch
  \/ \E f \in fetches, r \in OrderHealth :
       HealthResponse(f, r) /\ Within(PacingNodes + MaxAlerts, PacingNodes + MaxAlerts)
  \/ \E f \in fetches, r \in OrderStats :
       StatsResponse(f, r) /\ Within(PacingNodes + MaxAlerts, PacingNodes + MaxAlerts)
  \/ \E k \in 1..Len(flushes) : TimerFire(k)
  \/ Tick(PacingTicks)

SpecOrder == InitOrder /\ [][NextOrder]_vars

(***************************************************************************)
(* SpecCease: the condition of an issue ceases.  The stats request fails   *)
(* while the clock stands at the start and brings no data afterwards; the  *)
(* default settings apply.  The issue is acknowledged or ignored at any    *)
(* time.  Fairness: the clock advances, the interval timer and the alert   *)
(* timers fire when they are due, and every request ends (it has a timeout *)
(* of esQueryTimeout seconds).                                             *)
(***************************************************************************)
CeaseHealth == {HealthDoc("green")}
CeaseStats ==
  {IF now = Epoch THEN StatsResult("error", <<>>, "ETIMEDOUT")
   ELSE StatsResult("nodata", <<>>, "")}

InitCease == InitPacing

CeaseResponse ==
  \/ \E f \in fetches, r \in CeaseHealth : HealthResponse(f, r) /\ Within(MaxIssues, MaxAlerts)
  \/ \E f \in fetches, r \in CeaseStats : StatsResponse(f, r) /\ Within(MaxIssues, MaxAlerts)

NextCease ==
  \/ IntervalTick(1)
  \/ ApiUpdate(1) /\ now = Epoch
  \/ CeaseResponse
  \/ \E k \in 1..Len(flushes) : TimerFire(k)
  \/ Tick(CeaseTicks)
  \/ \E keys \in KeyLists(issues) : acknowledgeIssues(keys)
  \/ \E keys \in KeyLists(issues) : ignoreIssues(keys, Forever)

SpecCease ==
  /\ InitCease /\ [][NextCease]_vars
  /\ WF_vars(IntervalTick(1))
  /\ WF_vars(CeaseResponse)
  /\ WF_vars(\E k \in 1..Len(flushes) : TimerFire(k))
  /\ WF_vars(Tick(CeaseTicks))

(***************************************************************************)
(* SpecClusters: a cluster, a disabled cluster and a multiviewer.  Every   *)
(* health request finds its cluster red or fails, every stats request      *)
(* reports a node that receives no packets; no notifier is switched on.    *)
(***************************************************************************)
ThreeClusters ==
  <<Cluster(0, "A Cluster", FALSE, FALSE), Cluster(1, "B Cluster", TRUE, FALSE),
    Cluster(2, "C Cluster", FALSE, TRUE)>>

ClustersHealth == {HealthDoc("red"), HealthError("ETIMEDOUT")}
ClustersStats == {StatsResult("ok", <<FreshStat(1)>>, "")}

InitClusters ==
  InitWith(ThreeClusters, settingsDefault, [n \in {"n1", "n2"} |-> Backfilled(n)])

NextClusters ==
  \/ IntervalTick(1)
  \/ ApiUpdate(1)
  \/ \E f \in fetches, r \in ClustersHealth :
       HealthResponse(f, r) /\ Within(MaxIssues + MaxAlerts, MaxAlerts)
  \/ \E f \in fetches, r \in ClustersStats :
       StatsResponse(f, r) /\ Within(MaxIssues + MaxAlerts, MaxAlerts)
  \/ Tick(KeysTicks)

SpecClusters == InitClusters /\ [][NextClusters]_vars

(***************************************************************************)
(* SpecResults: every way a request can end.  The health request ends with *)
(* any of HealthResults; the stats request with a body that does not       *)
(* parse, or with the document of one node that receives packets and       *)
(* checked in a minute ago, or half a day ago.                             *)
(***************************************************************************)
UnparsableHealth == [kind |-> "unparsable", status |-> "", number_of_nodes |-> 0,
                     number_of_data_nodes |-> 0, message |-> ""]
UnparsableStats == StatsResult("unparsable", <<>>, "")

\* a node that checked in age seconds before the server started
StaleStat(age) == Stat(NodeName(1), Epoch \div 1000 - age, 5, 0)

ResultsStats ==
  {UnparsableStats, StatsResult("ok", <<StaleStat(60)>>, ""),
   StatsResult("ok", <<StaleStat(43200)>>, "")}

InitResults == InitPacing

NextResults ==
  \/ IntervalTick(1)
  \/ ApiUpdate(1)
  \/ \E f \in fetches, r \in HealthResults :
       HealthResponse(f, r) /\ Within(MaxIssues, MaxAlerts)
  \/ \E f \in fetches, r \in ResultsStats :
       StatsResponse(f, r) /\ Within(MaxIssues, MaxAlerts)
  \/ \E k \in 1..Len(flushes) : TimerFire(k)
  \/ Tick(NotifyTicks)

SpecResults == InitResults /\ [][NextResults]_vars

(***************************************************************************)
(* SpecRoutes: the issue routes on the issues of one cycle, started when   *)
(* the server starts: the cluster is red and a node receives no packets.   *)
(***************************************************************************)
InitRoutes ==
  InitWith(OneCluster, LifeGeneral,
           [n \in {"n1", "n2"} |-> IF n = "n1" THEN Configured ELSE Backfilled(n)])

NextRoutes ==
  \/ ApiUpdate(1) /\ now = Epoch
  \/ \E f \in fetches, r \in KeysHealth : HealthResponse(f, r) /\ Within(MaxIssues, MaxAlerts)
  \/ \E f \in fetches, r \in KeysStats : StatsResponse(f, r) /\ Within(MaxIssues, MaxAlerts)
  \/ Tick(KeysTicks)
  \/ \E keys \in KeyLists(issues) : acknowledgeIssues(keys)
  \/ \E keys \in KeyLists(issues), ms \in IgnoreDurations : ignoreIssues(keys, ms)
  \/ \E keys \in KeyLists(issues) : removeIgnoreIssues(keys)
  \/ \E key \in Keys(issues) : removeIssue(key)

SpecRoutes == InitRoutes /\ [][NextRoutes]_vars

(***************************************************************************)
(* SpecSettings: the parliament file holds an entry for some notifiers and *)
(* none for others; the server starts, polls, and has its settings         *)
(* restored.  nextPoll is undefined until the listen callback has run.     *)
(***************************************************************************)
\* the synchronous part of the listen callback: initializeParliament() up
\* to its fs.writeFile, then setInterval
initializeParliament ==
  /\ nextPoll = Undefined
  /\ general' = FilledGeneral(IF "general" \in defaults.shared THEN defaults.general
                              ELSE general)
  /\ notifiers' = buildNotifiers(IF "notifiers" \in defaults.shared THEN defaults.notifiers
                                 ELSE notifiers)
  /\ defaults' = Synced(defaults, general', notifiers')
  /\ nextPoll' = now + PollInterval
  /\ lastDetected' = {}
  /\ disk' = Written(disk, {ParliamentWrite("initializeParliament")})
  /\ UNCHANGED <<now, crashed, clusters, issues, issuesSaved, alerts, flushes, fetches,
                 cycles, hung, sentTwice, discarded, ignoredForever>>

\* PUT /settings/restoreDefaults with req.body.type = type
Listening == nextPoll # Undefined

\* the objects the settings and settingsDefault have in common once
\* restoreDefaults has assigned its copy: parliament.settings.general = copy
\* is an assignment to settingsDefault.general too when parliament.settings
\* is settingsDefault; parliament.settings = copy leaves nothing in common
SharedAfter(type, shared) ==
  IF type # "general" THEN {}
  ELSE IF "settings" \in shared THEN shared
  ELSE shared \ {"general"}

\* PUT /settings/restoreDefaults with req.body.type = type: the copy is
\* JSON.parse(JSON.stringify(...)) of settingsDefault as it is now
restoreDefaults(type) ==
  /\ ~crashed
  /\ Listening
  /\ general' = defaults.general
  /\ notifiers' = buildNotifiers(IF type = "general" THEN notifiers ELSE defaults.notifiers)
  /\ defaults' = Synced([defaults EXCEPT !.shared = SharedAfter(type, @)],
                        general', notifiers')
  /\ lastDetected' = {}
  /\ disk' = Written(disk, {ParliamentWrite("restoreDefaults")})
  /\ UNCHANGED <<now, nextPoll, crashed, clusters, issues, issuesSaved, alerts, flushes,
                 fetches, cycles, hung, sentTwice, discarded, ignoredForever>>

\* one of req.body.settings.general: isNaN(setting) is nan, parseInt(setting)
\* is int
Setting(key, nan, int) == [key |-> key, nan |-> nan, int |-> int]

Saved(value, failed) == [value |-> value, failed |-> failed]

RECURSIVE SaveFields(_, _)
\* for (let f in notifier.fields): the value of a field the entry has;
\* 'Unable to find notifier field to update.' ends the request
SaveFields(entry, fields) ==
  IF fields = <<>> THEN Saved(entry, FALSE)
  ELSE IF Head(fields).name \in DOMAIN entry.fields /\ entry.fields[Head(fields).name].present
    THEN SaveFields([entry EXCEPT !.fields[Head(fields).name].value = Head(fields).value],
                    Tail(fields))
  ELSE Saved(entry, TRUE)

RECURSIVE SaveAlerts(_, _)
\* for (let a in notifier.alerts): the alert the entry has; 'Unable to find
\* alert to update.' ends the request
SaveAlerts(entry, als) ==
  IF als = <<>> THEN Saved(entry, FALSE)
  ELSE IF Head(als).id \in DOMAIN entry.alerts
    THEN SaveAlerts([entry EXCEPT !.alerts[Head(als).id] = Head(als).on], Tail(als))
  ELSE Saved(entry, TRUE)

\* the alerts of notifier, after its fields f unless they ended the request
AlertsAfter(f, notifier) == IF f.failed THEN f ELSE SaveAlerts(f.value, notifier.alerts)

RECURSIVE SaveNotifiers(_, _)
\* the entry of the first notifier is e: go on with the others unless it
\* ended the request
NotifiersAfter(ns, e, nbs) ==
  IF e.failed THEN Saved([ns EXCEPT ![Head(nbs).name] = e.value], TRUE)
  ELSE SaveNotifiers([ns EXCEPT ![Head(nbs).name] = e.value], Tail(nbs))

\* "save notifiers": each entry is changed in place, so what was assigned
\* before an error stays; 'Unable to find notifier. Is it loaded?'
SaveNotifiers(ns, nbs) ==
  IF nbs = <<>> THEN Saved(ns, FALSE)
  ELSE IF Head(nbs).name \notin DOMAIN ns THEN Saved(ns, TRUE)
  ELSE IF ~ns[Head(nbs).name].exists THEN Saved(ns, TRUE)
  ELSE NotifiersAfter(ns,
                      AlertsAfter(SaveFields([ns[Head(nbs).name] EXCEPT !.on = Head(nbs).on],
                                             Head(nbs).fields),
                                  Head(nbs)),
                      nbs)

RECURSIVE SaveGeneral(_, _)
\* "save general settings": parliament.settings.general[s] = parseInt(setting),
\* or '... must be a number.'
SaveGeneral(gen, settings) ==
  IF settings = <<>> THEN Saved(gen, FALSE)
  ELSE IF Head(settings).nan THEN Saved(gen, TRUE)
  ELSE SaveGeneral([gen EXCEPT ![Head(settings).key] = Head(settings).int], Tail(settings))

\* the general settings after the notifiers r
GeneralAfter(r, gen, settings) == IF r.failed THEN Saved(gen, TRUE) ELSE SaveGeneral(gen, settings)

\* PUT /settings with req.body.settings = body; writeParliament when no
\* error has ended the request (its callback goes on to updateParliament)
updateSettings(body) ==
  /\ ~crashed
  /\ Listening
  /\ notifiers' = SaveNotifiers(notifiers, body.notifiers).value
  /\ general' = GeneralAfter(SaveNotifiers(notifiers, body.notifiers), general,
                             body.general).value
  /\ defaults' = Synced(defaults, general', notifiers')
  /\ disk' = Written(disk,
                     IF GeneralAfter(SaveNotifiers(notifiers, body.notifiers), general,
                                     body.general).failed
                       THEN {} ELSE {ParliamentWrite("writeParliament")})
  /\ lastDetected' = {}
  /\ UNCHANGED <<now, nextPoll, crashed, clusters, issues, issuesSaved, alerts, flushes,
                 fetches, cycles, hung, sentTwice, discarded, ignoredForever>>

FileSettingsOfN1 == (SettingsOfN1 \ {Backfilled("n1")}) \cup {NoNotifier("n1")}
FileSettingsOfN2 == (SettingsOfN2 \ {Backfilled("n2")}) \cup {NoNotifier("n2")}
FileGeneral == {settingsDefault, [settingsDefault EXCEPT !.removeIssuesAfter = Undefined],
                LifeGeneral}

\* a parliament file with settings that hold general and notifiers
FileWithSettings ==
  \E s1 \in FileSettingsOfN1, s2 \in FileSettingsOfN2, gen \in FileGeneral :
    StartedWith(Undefined, NoDisk, HardCoded({}), OneCluster, gen,
                [n \in {"n1", "n2"} |-> IF n = "n1" THEN s1 ELSE s2])

\* no parliament file (settings: settingsDefault), or a file whose settings
\* lack general, notifiers or both
FileWithout ==
  \E shared \in {{"settings", "general", "notifiers"}, {"general", "notifiers"},
                  {"general"}, {"notifiers"}} :
    \E gen \in (IF "general" \in shared THEN {NoGeneral} ELSE FileGeneral) :
      \E s1 \in (IF "notifiers" \in shared THEN {NoNotifier("n1")} ELSE {Configured}) :
        StartedWith(Undefined, NoDisk, HardCoded(shared), OneCluster, gen,
                    [n \in {"n1", "n2"} |-> IF n = "n1" THEN s1 ELSE NoNotifier(n)])

InitSettings == FileWithSettings \/ FileWithout

SettingsBodies ==
  {[notifiers |-> <<>>, general |-> <<Setting(key, FALSE, int)>>] :
     key \in {"removeIssuesAfter"}, int \in {0, 45}}
  \cup {[notifiers |-> <<>>, general |-> <<Setting("outOfDate", TRUE, 0)>>]}
  \cup {[notifiers |-> <<[name |-> "n1", on |-> TRUE,
                          fields |-> <<[name |-> "url", value |-> "https://hook"]>>,
                          alerts |-> <<>>]>>,
         general |-> <<>>],
        [notifiers |-> <<[name |-> "n1", on |-> FALSE, fields |-> <<>>,
                          alerts |-> <<[id |-> "esRed", on |-> FALSE]>>]>>,
         general |-> <<>>],
        [notifiers |-> <<[name |-> "n3", on |-> TRUE, fields |-> <<>>, alerts |-> <<>>]>>,
         general |-> <<Setting("outOfDate", FALSE, 45)>>]}

NextSettings ==
  \/ initializeParliament
  \/ \E type \in {"general", "all"} : restoreDefaults(type)
  \/ \E body \in SettingsBodies : updateSettings(body)
  \/ Listening /\ ApiUpdate(1)
  \/ \E f \in fetches, r \in NotifyHealth : HealthResponse(f, r) /\ Within(MaxIssues, MaxAlerts)
  \/ \E f \in fetches, r \in NotifyStats : StatsResponse(f, r) /\ Within(MaxIssues, MaxAlerts)
  \/ Listening /\ Tick(NotifyTicks)

SpecSettings == InitSettings /\ [][NextSettings]_vars

(***************************************************************************)
(* SpecEnable: the cluster turns red while no notifier takes the alert (n1 *)
(* is off, or on with the alert for the type off); n1 is then switched on  *)
(* through the settings, and the issue is acknowledged, ignored and        *)
(* unignored while the polls go on.  No flush runs: an alert stays in the  *)
(* list.                                                                   *)
(***************************************************************************)
EnableN1 ==
  [notifiers |-> <<[name |-> "n1", on |-> TRUE,
                    fields |-> <<[name |-> "url", value |-> "https://hook"]>>,
                    alerts |-> <<[id |-> "esRed", on |-> TRUE]>>]>>,
   general |-> <<>>]

InitEnable ==
  \E s1 \in {Backfilled("n1"),
              NotifierSetting(TRUE, [AllAlerts EXCEPT !["esRed"] = FALSE],
                              [f \in {"url"} |-> Field(TRUE, "https://hook")])} :
    InitWith(OneCluster, settingsDefault,
             [n \in {"n1", "n2"} |-> IF n = "n1" THEN s1 ELSE Backfilled(n)])

NextEnable ==
  \/ ApiUpdate(1)
  \/ \E f \in fetches, r \in KeysHealth : HealthResponse(f, r) /\ Within(MaxIssues, MaxAlerts)
  \/ \E f \in fetches, r \in NotifyStats : StatsResponse(f, r) /\ Within(MaxIssues, MaxAlerts)
  \/ Tick(MaxTicks)
  \/ updateSettings(EnableN1)
  \/ \E keys \in KeyLists(issues) : acknowledgeIssues(keys)
  \/ \E keys \in KeyLists(issues) : ignoreIssues(keys, TickStep)
  \/ \E keys \in KeyLists(issues) : removeIgnoreIssues(keys)

SpecEnable == InitEnable /\ [][NextEnable]_vars

(***************************************************************************)
(* SpecDisk: the files are followed.  A cluster is polled, its issues are  *)
(* acknowledged, ignored and removed through the routes, and every write   *)
(* ends, well or in an error, at any time after its call.                  *)
(***************************************************************************)
\* a write that rolls the issue list back to the file when it fails
\* (FailedSaveChangesNothing tells it from WriteFails)
WriteFailsRollsBack(w) ==
  /\ ~crashed
  /\ w \in disk.writes
  /\ disk' = [disk EXCEPT !.writes = @ \ {w},
                          !.failed = @ \/ w.file = "issuesfile"]
  /\ issues' = disk.issuesfile
  /\ lastDetected' = {}
  /\ UNCHANGED <<now, nextPoll, crashed, clusters, general, notifiers, defaults, issuesSaved,
                 alerts, flushes, fetches, cycles, hung, sentTwice, discarded,
                 ignoredForever>>

\* the callback of write w runs with an error: console.error, and for the
\* write of the parliament file of updateParliament a reject() of the promise
\* that resolve() has settled already; the route answers with the error
WriteFails(w) ==
  /\ ~crashed
  /\ w \in disk.writes
  /\ w.by # "initializeParliament"
  /\ disk' = [disk EXCEPT !.writes = @ \ {w},
                          !.failed = @ \/ w.file = "issuesfile"]
  /\ lastDetected' = {}
  /\ UNCHANGED <<now, nextPoll, crashed, clusters, general, notifiers, defaults, issues, issuesSaved,
                 alerts, flushes, fetches, cycles, hung, sentTwice, discarded,
                 ignoredForever>>

\* write w ends: the file holds what the call was given, the callback has
\* nothing to do but answer the request of a route
WriteDone(w) ==
  /\ ~crashed
  /\ w \in disk.writes
  /\ disk' = [disk EXCEPT !.writes = @ \ {w},
                          !.issuesfile = IF w.file = "issuesfile" THEN w.data ELSE @]
  /\ lastDetected' = {}
  /\ UNCHANGED <<now, nextPoll, crashed, clusters, general, notifiers, defaults, issues, issuesSaved,
                 alerts, flushes, fetches, cycles, hung, sentTwice, discarded,
                 ignoredForever>>

\* no more than MaxWrites calls are in flight
InFlight == Cardinality(disk'.writes) <= MaxWrites

DiskHealth == {HealthDoc("green"), HealthDoc("red")}
DiskStats == {StatsResult("nodata", <<>>, ""), StatsResult("ok", <<FreshStat(1)>>, "")}

\* issues leave the list at the first cycle after the clock has moved
DiskGeneral == [settingsDefault EXCEPT !.removeIssuesAfter = TickMinutes - 1,
                                       !.removeAcknowledgedAfter = TickMinutes - 1]

InitDisk ==
  StartedWith(Epoch + PollInterval, EmptyDisk, HardCoded({}), OneCluster, DiskGeneral,
              [n \in {"n1", "n2"} |-> Backfilled(n)])

NextDisk ==
  \/ ApiUpdate(1)
  \/ Tick(KeysTicks)
  \/ \E f \in fetches, r \in DiskHealth :
       HealthResponse(f, r) /\ Within(MaxIssues, MaxAlerts) /\ InFlight
  \/ \E f \in fetches, r \in DiskStats :
       StatsResponse(f, r) /\ Within(MaxIssues, MaxAlerts) /\ InFlight
  \/ \E keys \in KeyLists(issues) : acknowledgeIssues(keys) /\ InFlight
  \/ \E w \in disk.writes : WriteDone(w)
  \/ \E w \in disk.writes : WriteFails(w)

SpecDisk == InitDisk /\ [][NextDisk]_vars

(***************************************************************************)
(* Properties                                                              *)
(***************************************************************************)
\* the position of the issue with the key in iss, 0 when there is none
IndexOf(iss, key) == findIssue(iss, key.clusterId, key.type, key.node)

\* the pending alerts of al that carry the message of the issue
AlertsFor(al, issue) ==
  {k \in 1..Len(al) : al[k].message = [title |-> issue.cluster, body |-> issue.message]}

\* the alerts a fetch handler's step has appended for the issue
EnqueuedFor(issue) ==
  Cardinality({k \in AlertsFor(alerts', issue) : k > Len(alerts)})

\* the notifiers that are switched on and have the alert for the type on
Subscribers(type) ==
  {n \in {"n1", "n2"} : ~NotifierOff(n, notifiers) /\ ~AlertOff(n, notifiers, type)}

\* the step is a cleanup sweep: updateParliament ran
SweepStep == \E id \in 1..MaxCycles : IntervalTick(id) \/ ApiUpdate(id)

AcknowledgeStep == \E keys \in KeyLists(issues) : acknowledgeIssues(keys)

IgnoreStep ==
  \/ \E keys \in KeyLists(issues), ms \in IgnoreDurations : ignoreIssues(keys, ms)
  \/ \E keys \in KeyLists(issues) : removeIgnoreIssues(keys)

RemoveIssuesAfterMs == getGeneralSetting(general, "removeIssuesAfter") * MsPerMinute
RemoveAcknowledgedAfterMs == getGeneralSetting(general, "removeAcknowledgedAfter") * MsPerMinute

\* C1: the issue list holds at most one issue for each (clusterId, type,
\* node) key, whatever the interleaving of detections (of overlapping poll
\* cycles too), cleanup sweeps and acknowledge, ignore, clear-ignore and
\* remove requests.
NoDuplicateKeys ==
  \A j, k \in 1..Len(issues) : j # k => KeyOf(issues[j]) # KeyOf(issues[k])

\* an issue that existed has been detected again while two poll cycles are
\* outstanding and the list holds two issues
DetectedAgainInOverlap ==
  /\ Len(issues) = 2
  /\ \A id \in 1..MaxCycles : cycles[id].pending # 0
  /\ \E d \in lastDetected : d.existed

\* C2: when no request touches the issues, the detection that creates an
\* issue enqueues its alert once (one pending alert for each notifier that
\* is on for the type), and every later detection of the key only sets
\* lastNoticed: no second issue, nothing enqueued.
DetectionAlertsOnce ==
  [][/\ \A d \in lastDetected' :
          LET j == IndexOf(issues', d.key) IN
          /\ j # 0
          /\ ~d.existed =>
               /\ issues'[j].firstNoticed = now
               /\ EnqueuedFor(issues'[j]) = Cardinality(Subscribers(d.key.type))
          /\ d.existed =>
               /\ issues'[j] = [issues[IndexOf(issues, d.key)] EXCEPT !.lastNoticed = now]
               /\ EnqueuedFor(issues'[j]) = 0
     /\ lastDetected' # {} =>
          /\ Len(issues') = Len(issues) + Cardinality({d \in lastDetected' : ~d.existed})
          /\ \A j, k \in 1..Len(issues') : j # k => KeyOf(issues'[j]) # KeyOf(issues'[k])
    ]_vars

\* an issue that had been alerted earlier has been detected again at a later
\* time
DetectedAgainLater ==
  \E d \in lastDetected :
    /\ d.existed /\ d.alerted
    /\ \E k \in 1..Len(issues) :
         KeyOf(issues[k]) = d.key /\ issues[k].lastNoticed > issues[k].alerted

\* C3: no pending alert is passed to sendAlert twice, not even when a flush
\* starts while the paced dispatch of the flush before it is unfinished.
EachAlertSentAtMostOnce == ~sentTwice

\* C4: no pending alert that a fetch handler enqueues while a flush is in
\* progress leaves the list without having been passed to sendAlert.
NoAlertDiscarded == ~discarded

\* C5: a cleanup sweep at time now removes an unacknowledged issue with
\* lastNoticed <= now exactly when now - lastNoticed > removeIssuesAfter, an
\* acknowledged one exactly when now - lastNoticed > removeAcknowledgedAfter
\* (minutes), and no other issue.
SweepRemovesByWindow ==
  [][SweepStep =>
       \A k \in 1..Len(issues) :
         issues[k].lastNoticed <= now =>
           (IndexOf(issues', KeyOf(issues[k])) = 0
              <=> now - issues[k].lastNoticed >
                    (IF issues[k].acknowledged = Undefined
                       THEN RemoveIssuesAfterMs ELSE RemoveAcknowledgedAfterMs))
    ]_vars

\* C6: a detection of an issue that has acknowledged set enqueues no alert
\* for it and leaves acknowledged set; acknowledged is cleared by a cleanup
\* sweep only.
AcknowledgedStaysSilent ==
  [][\A k \in 1..Len(issues) :
       issues[k].acknowledged # Undefined =>
         /\ (\E d \in lastDetected' : d.key = KeyOf(issues[k])) =>
              /\ EnqueuedFor(issues[k]) = 0
              /\ IndexOf(issues', KeyOf(issues[k])) # 0
              /\ issues'[IndexOf(issues', KeyOf(issues[k]))].acknowledged
                   = issues[k].acknowledged
         /\ (\E j \in 1..Len(issues') :
               /\ KeyOf(issues'[j]) = KeyOf(issues[k])
               /\ issues'[j].acknowledged = Undefined) => SweepStep
    ]_vars

\* an acknowledged issue whose alerted and ignoreUntil were not set has been
\* detected
AcknowledgedDetected ==
  \E d \in lastDetected : d.existed /\ d.acknowledged /\ ~d.alerted /\ d.ignore = "no"

\* C7: a detection of an issue whose ignoreUntil is a time in the future
\* enqueues nothing and keeps ignoreUntil; a detection at now > ignoreUntil
\* (ignoreUntil not -1) clears ignoreUntil and alerted and, if the issue is
\* not acknowledged, enqueues its alert once (which sets alerted again); a
\* detection of an issue with alerted set and no ignoreUntil enqueues
\* nothing.
IgnoreUntilThenAlertOnce ==
  [][\A k \in 1..Len(issues) :
       (\E d \in lastDetected' : d.key = KeyOf(issues[k])) =>
         LET j == IndexOf(issues', KeyOf(issues[k])) IN
         /\ j # 0
         /\ issues[k].ignoreUntil > now =>
              /\ EnqueuedFor(issues[k]) = 0
              /\ issues'[j].ignoreUntil = issues[k].ignoreUntil
         /\ (/\ issues[k].ignoreUntil # Undefined
             /\ issues[k].ignoreUntil # Forever
             /\ now > issues[k].ignoreUntil) =>
              /\ issues'[j].ignoreUntil = Undefined
              /\ IF issues[k].acknowledged = Undefined
                   THEN /\ EnqueuedFor(issues[k]) = Cardinality(Subscribers(issues[k].type))
                        /\ issues'[j].alerted = now
                   ELSE /\ EnqueuedFor(issues[k]) = 0
                        /\ issues'[j].alerted = Undefined
         /\ (issues[k].ignoreUntil = Undefined /\ issues[k].alerted # Undefined) =>
              EnqueuedFor(issues[k]) = 0
    ]_vars

\* an unacknowledged issue whose ignoreUntil had passed has been detected
ExpiredIgnoreDetected ==
  \E d \in lastDetected : d.existed /\ d.ignore = "expired" /\ ~d.acknowledged /\ d.alerted

\* C8: once a key has been ignored forever, no detection enqueues an alert
\* for the key until the ignore is cleared, whatever cleanup sweeps and
\* acknowledgements happen in between.
IgnoredForeverNeverAlerts ==
  [][\A d \in lastDetected' :
       d.key \in ignoredForever =>
         EnqueuedFor(issues'[IndexOf(issues', d.key)]) = 0
    ]_vars

\* What setIssue does keep of an ignore: as long as an issue with
\* ignoreUntil = -1 is in the issue list, no step adds a pending alert for
\* it, and only an ignore or clear-ignore request changes its ignoreUntil (a
\* cleanup sweep can remove the issue; the next detection then creates a
\* new issue and alerts).
IgnoredForeverSilentWhileListed ==
  [][\A k \in 1..Len(issues) :
       issues[k].ignoreUntil = Forever =>
         /\ Cardinality(AlertsFor(alerts', issues[k]))
              <= Cardinality(AlertsFor(alerts, issues[k]))
         /\ \A j \in 1..Len(issues') :
              (KeyOf(issues'[j]) = KeyOf(issues[k]) /\ issues'[j].ignoreUntil # Forever)
                => IgnoreStep
    ]_vars

\* an issue that is ignored forever and not acknowledged has been detected
\* at a later time than it was alerted
IgnoredForeverDetected ==
  \E d \in lastDetected :
    /\ d.existed /\ d.ignore = "forever" /\ ~d.acknowledged
    /\ \E k \in 1..Len(issues) :
         /\ KeyOf(issues[k]) = d.key
         /\ issues[k].ignoreUntil = Forever
         /\ issues[k].lastNoticed > issues[k].firstNoticed

\* C9: for an acknowledged issue that is still being detected (lastNoticed
\* within removeAcknowledgedAfter of now), a cleanup sweep with
\* now - acknowledged > removeAcknowledgedAfter clears acknowledged and
\* alerted on it; and a detection of an issue with neither acknowledged,
\* alerted nor ignoreUntil set enqueues its alert.
SweepUnacknowledges ==
  [][/\ SweepStep =>
          \A k \in 1..Len(issues) :
            (/\ issues[k].acknowledged # Undefined
             /\ now - issues[k].acknowledged > RemoveAcknowledgedAfterMs
             /\ issues[k].lastNoticed <= now
             /\ now - issues[k].lastNoticed <= RemoveAcknowledgedAfterMs) =>
              LET j == IndexOf(issues', KeyOf(issues[k])) IN
              /\ j # 0
              /\ issues'[j].acknowledged = Undefined
              /\ issues'[j].alerted = Undefined
     /\ \A k \in 1..Len(issues) :
          (/\ \E d \in lastDetected' : d.key = KeyOf(issues[k])
           /\ issues[k].acknowledged = Undefined
           /\ issues[k].alerted = Undefined
           /\ issues[k].ignoreUntil = Undefined) =>
            EnqueuedFor(issues[k]) = Cardinality(Subscribers(issues[k].type))
    ]_vars

\* a required field of the notifier's settings has an empty value
RequiredFieldEmpty(n) ==
  \E f \in FieldNames(n) :
    /\ notifiers[n].fields[f].present
    /\ notifiers[n].fields[f].required
    /\ notifiers[n].fields[f].value = ""

\* C10: the detection that creates an issue records it, appends no pending
\* alert for a notifier that is on for the type but has a required field
\* with an empty value, and appends one for each other notifier that is on
\* for the type (the settings holding every field of every such notifier).
RequiredFieldGuardsAlert ==
  [][\A d \in lastDetected' :
       (/\ ~d.existed
        /\ \A n \in Subscribers(d.key.type) : ~ConfigThrows(n, notifiers)) =>
         LET j == IndexOf(issues', d.key) IN
         /\ j # 0
         /\ \A n \in Subscribers(d.key.type) :
              Cardinality({k \in AlertsFor(alerts', issues'[j]) :
                             k > Len(alerts) /\ alerts'[k].notifier = n})
                = IF RequiredFieldEmpty(n) THEN 0 ELSE 1
    ]_vars

\* the step is the handler of a fetch response (.then or .catch of getHealth
\* or getStats)
ResponseStep == \E f \in fetches : f \notin fetches'

\* C11: a notifier field that the settings do not hold, or a required field
\* with an empty value, is never raised to the poll cycle: the handler that
\* detected the issue resolves its promise (the cycle's Promise.all can
\* complete) and no esDown issue is created, no fetch having failed.
ConfigGapNotRaised ==
  [][ResponseStep =>
       /\ ~hung'
       /\ \A k \in 1..Len(issues') :
            issues'[k].type = "esDown" => \E j \in 1..Len(issues) : issues[j].type = "esDown"
    ]_vars

\* C12: updateParliament never runs in parallel with itself: at most one
\* invocation has fetches outstanding, whether the interval or a request
\* called it.
OneCycleAtATime ==
  Cardinality({id \in 1..MaxCycles : cycles[id].pending # 0}) <= 1

\* C13: in a poll cycle the fetch results are evaluated first, then cleanup
\* runs, then the flush is requested: the step that runs cleanUpIssues
\* leaves no fetch of its cycle outstanding, and the step that calls
\* sendAlerts finds no fetch outstanding.
EvaluateCleanupFlushOrder ==
  [][/\ SweepStep => fetches' \subseteq fetches
     /\ Len(flushes') > Len(flushes) => fetches' = {}
    ]_vars

\* C16: every getHealth and getStats promise is resolved, whatever the
\* request ends with, so that Promise.all of the cycle completes.
EveryFetchResolves == ~hung

\* C17: as long as the issue of a key stays in the list, firstNoticed keeps
\* the value of the creation and lastNoticed never decreases: a detection of
\* the key sets lastNoticed to the current time, and no other step
\* (acknowledge, ignore, clear-ignore, cleanup) changes either field.
NoticedTimesKept ==
  [][\A k \in 1..Len(issues) :
       LET j == IndexOf(issues', KeyOf(issues[k])) IN
       j # 0 =>
         /\ issues'[j].firstNoticed = issues[k].firstNoticed
         /\ issues'[j].lastNoticed >= issues[k].lastNoticed
         /\ issues'[j].lastNoticed =
              IF \E d \in lastDetected' : d.key = KeyOf(issues[k])
                THEN now ELSE issues[k].lastNoticed
    ]_vars

\* an issue that was acknowledged and ignored has been detected again later
\* than it was created
NoticedAgainLater ==
  \E d \in lastDetected :
    /\ d.existed /\ d.acknowledged /\ d.ignore # "no"
    /\ \E k \in 1..Len(issues) :
         /\ KeyOf(issues[k]) = d.key
         /\ issues[k].lastNoticed = now
         /\ issues[k].firstNoticed < now

\* C18: every change a poll cycle makes to the issue list (an issue created,
\* refreshed, removed by the cleanup or unacknowledged by it) is followed by
\* an fs.writeFile of the list with the change in it: once no cycle has a
\* fetch outstanding, the list written last is the issue list.
CycleChangesSaved ==
  (\A id \in 1..MaxCycles : cycles[id].pending = 0) => issuesSaved = issues

\* the esDown issues of the cluster in iss
EsDownIssues(iss, clusterId) ==
  {k \in 1..Len(iss) : iss[k].type = "esDown" /\ iss[k].clusterId = clusterId}

\* C19: a failure of the health request and a failure of the stats request
\* of a cluster are recorded as the same esDown issue: after either is
\* handled the cluster has exactly one esDown issue, the failure that
\* creates it enqueues one alert for each notifier that is on for esDown,
\* and a failure that finds it listed enqueues nothing.
FailuresConverge ==
  [][\A d \in lastDetected' :
       d.key.type = "esDown" =>
         /\ Cardinality(EsDownIssues(issues', d.key.clusterId)) = 1
         /\ IndexOf(issues', d.key) # 0
         /\ EnqueuedFor(issues'[IndexOf(issues', d.key)])
              = IF d.existed THEN 0 ELSE Cardinality(Subscribers("esDown"))
    ]_vars

\* the stats request has failed for a cluster whose esDown issue the failed
\* health request had created
BothFetchesFailed ==
  /\ clusters[1].healthError = "ETIMEDOUT"
  /\ clusters[1].statsError = "ETIMEDOUT"
  /\ \E d \in lastDetected : d.key.type = "esDown" /\ d.existed
  /\ \E k \in 1..Len(issues) :
       issues[k].type = "esDown" /\ issues[k].lastNoticed = issues[k].firstNoticed

\* the issue type whose text a rendered message carries
TypeOfText(text) == CHOOSE type \in IssueTypeIds : issueTypes[type].text = text

\* C20: a fetch handler appends a pending alert for a notifier only if the
\* settings hold the notifier switched on and with the alert of the issue's
\* type on; for a notifier that is off, or has the type off, it appends
\* nothing.
AppendedOnlyWhenOn ==
  [][ResponseStep =>
       \A k \in (Len(alerts) + 1)..Len(alerts') :
         /\ notifiers[alerts'[k].notifier].exists
         /\ notifiers[alerts'[k].notifier].on
         /\ notifiers[alerts'[k].notifier].alerts[TypeOfText(alerts'[k].message.body.text)]
    ]_vars

\* an esRed issue has been created with n1 switched on but its esRed alert
\* off and n2 switched on: the list holds the alert for n2 only
TypeOffDetected ==
  /\ notifiers["n1"].on /\ ~notifiers["n1"].alerts["esRed"]
  /\ notifiers["n2"].on
  /\ \E d \in lastDetected : d.key.type = "esRed" /\ ~d.existed
  /\ Len(alerts) = 1 /\ alerts[1].notifier = "n2"

\* C14: a flush passes its alerts to sendAlert in ascending order of their
\* messages: no alert it sends has a message that sorts before the message
\* of the alert it sent before.
FlushSendsInOrder ==
  [][\A k \in 1..Len(flushes) :
       (/\ TimerFire(k)
        /\ flushes[k].next + 1 <= Len(alerts)
        /\ flushes[k].last # <<>>) =>
         localeCompare(flushes[k].last[1], alerts[flushes[k].next + 1].message) <= 0
    ]_vars

\* C15: an exception of sendAlert stays with the alert it was called for:
\* the process goes on, so that the other timers of the flush and the next
\* interval still run.
SendFailureIsolated ==
  [][(\E k \in 1..Len(flushes) : SendAlertThrows(k)) => ~crashed']_vars


\* C21: an issue whose condition is no longer detected does not stay in the
\* list for ever while the poll cycles keep running: a cleanup sweep removes
\* it.
CeasedIssueEventuallyRemoved == (issues # <<>>) ~> (issues = <<>>)

\* a sweep after the longest retention window has removed an issue
CeasedIssueSwept ==
  /\ now - Epoch > DefaultRemoveIssuesAfter * MsPerMinute
  /\ cycles[1].issuesRemoved /\ issues = <<>>

\* the position in clusters of the cluster with the id, 0 when there is none
ClusterOf(clusterId) ==
  IF \E k \in 1..Len(clusters) : clusters[k].id = clusterId
    THEN CHOOSE k \in 1..Len(clusters) : clusters[k].id = clusterId
    ELSE 0

\* C22: no request is outstanding for a disabled cluster and no stats
\* request for a multiviewer; the list holds no issue of a disabled cluster
\* and no issue of a node of a multiviewer.
ExemptClustersNotPolled ==
  /\ \A f \in fetches :
       /\ ~clusters[f.cluster].disabled
       /\ f.kind = "stats" => ~clusters[f.cluster].multiviewer
  /\ \A k \in 1..Len(issues) :
       /\ ClusterOf(issues[k].clusterId) # 0
       /\ ~clusters[ClusterOf(issues[k].clusterId)].disabled
       /\ clusters[ClusterOf(issues[k].clusterId)].multiviewer
            => issues[k].type \in {"esRed", "esDown"} /\ issues[k].node = UndefinedStr

\* cycles have polled the multiviewer for its health and the cluster for
\* its nodes
MultiviewerHealthPolled ==
  /\ \E k \in 1..Len(issues) :
       clusters[ClusterOf(issues[k].clusterId)].multiviewer
  /\ \E k \in 1..Len(issues) : issues[k].node # UndefinedStr
  /\ \E f \in fetches : clusters[f.cluster].multiviewer

\* the handler of fetch f has resolved its promise: the fetch is settled and
\* its cycle goes on with the fetches it still waits for
Resolved(f) ==
  /\ fetches' = fetches \ {f}
  /\ hung' = hung
  /\ f.cycle # 0 =>
       cycles'[f.cycle].pending = IF cycles[f.cycle].pending = 1 THEN 0
                                  ELSE cycles[f.cycle].pending - 1

\* C23: a response whose body does not parse sets the error field of the
\* cluster for the request, creates and refreshes no issue, appends no
\* alert, and resolves the promise of the fetch.
ParseFailureRaisesNoIssue ==
  [][\A f \in fetches :
       /\ HealthResponse(f, UnparsableHealth) =>
            /\ clusters'[f.cluster].healthError = "ES health parse failure"
            /\ issues' = issues /\ alerts' = alerts /\ lastDetected' = {}
            /\ Resolved(f)
       /\ StatsResponse(f, UnparsableStats) =>
            /\ clusters'[f.cluster].statsError = "ES stats parse failure"
            /\ issues' = issues /\ alerts' = alerts /\ lastDetected' = {}
            /\ Resolved(f)
    ]_vars

\* both bodies of a cycle did not parse, and the cycle is over
ParseFailuresHandled ==
  /\ clusters[1].healthError = "ES health parse failure"
  /\ clusters[1].statsError = "ES stats parse failure"
  /\ fetches = {} /\ issues = <<>>

\* C27: a stats document raises outOfDate for a node exactly when the time
\* since the node checked in, counted from the start of the fetch, is longer
\* than the outOfDate setting, both in seconds.
OutOfDateInSeconds ==
  [][\A f \in fetches, r \in ResultsStats :
       (r.kind = "ok" /\ StatsResponse(f, r)) =>
         \A k \in 1..Len(r.data) :
           (f.startedAt - r.data[k].currentTime * 1000
              > getGeneralSetting(general, "outOfDate") * 1000)
           <=> (\E d \in lastDetected' :
                  d.key = Key(clusters[f.cluster].id, "outOfDate", r.data[k].nodeName))
    ]_vars

\* C30: a detection of an issue that is in the list leaves the value, the
\* message, the severity and firstNoticed of the issue as they were (and
\* its key, text, title and cluster with them).
RefreshKeepsCreationFields ==
  [][ResponseStep =>
       \A k \in 1..Len(issues) :
         /\ k <= Len(issues')
         /\ [issues'[k] EXCEPT !.lastNoticed = 0, !.ignoreUntil = 0, !.alerted = 0]
              = [issues[k] EXCEPT !.lastNoticed = 0, !.ignoreUntil = 0, !.alerted = 0]
    ]_vars

\* the esDown issue raised with one error text has been detected again,
\* later, with the other
RefreshedWithOtherValue ==
  \E k \in 1..Len(issues), d \in lastDetected :
    /\ issues[k].type = "esDown" /\ d.key = KeyOf(issues[k]) /\ d.existed
    /\ issues[k].lastNoticed > issues[k].firstNoticed
    /\ issues[k].value = StrValue("ETIMEDOUT")
    /\ clusters[1].healthError = "ECONNREFUSED"

\* C28: with the default settings an acknowledged issue is kept at least as
\* long as one that is not: an issue a sweep removes as acknowledged it
\* would remove as well were the issue not acknowledged.
AcknowledgedKeptNoShorter ==
  [][SweepStep =>
       \A k \in 1..Len(issues) :
         (issues[k].acknowledged # Undefined /\ Removable(issues[k], general, now))
           => Removable([issues[k] EXCEPT !.acknowledged = Undefined], general, now)
    ]_vars

\* C28, as the code has it: with the default settings an acknowledged issue
\* is kept at most as long as one that is not: an issue a sweep removes as
\* not acknowledged it would remove as well were the issue acknowledged.
AcknowledgedRemovedNoLater ==
  [][SweepStep =>
       \A k \in 1..Len(issues) :
         (issues[k].acknowledged = Undefined /\ Removable(issues[k], general, now))
           => Removable([issues[k] EXCEPT !.acknowledged = now], general, now)
    ]_vars

\* a sweep is due that finds an issue that is not acknowledged and was last
\* noticed longer ago than removeIssuesAfter
UnacknowledgedDueForRemoval ==
  /\ now >= nextPoll /\ cycles[1].pending = 0 /\ ~crashed
  /\ \E k \in 1..Len(issues) :
       /\ issues[k].acknowledged = Undefined
       /\ now - issues[k].lastNoticed > RemoveIssuesAfterMs

\* the issues in the list that the keys name
Named(keys) == {k \in 1..Len(issues) : \E j \in 1..Len(keys) : KeyOf(issues[k]) = keys[j]}

\* the keys that name an issue in the list
Naming(keys) == {j \in 1..Len(keys) : \E k \in 1..Len(issues) : KeyOf(issues[k]) = keys[j]}

\* the route reports an error and leaves the list alone when no key names
\* an issue, and counts the keys that name one otherwise
CountsNaming(keys) ==
  /\ RouteCount(issues, keys) = Cardinality(Naming(keys))
  /\ RouteFails(issues, keys) <=> Named(keys) = {}
  /\ Named(keys) = {} => issues' = issues
  /\ Len(issues') = Len(issues)

\* C25: acknowledge, ignore and clear-ignore change exactly the issues the
\* keys name (acknowledged = now; ignoreUntil = now + duration, or -1;
\* ignoreUntil and alerted cleared), count the keys that name an issue and
\* report an error, changing nothing, when none does; remove deletes
\* exactly the issue with the key.
RoutesTransitionMatching ==
  [][/\ \A keys \in KeyLists(issues) :
          /\ acknowledgeIssues(keys) =>
               /\ CountsNaming(keys)
               /\ \A k \in 1..Len(issues) :
                    issues'[k] = IF k \in Named(keys)
                                   THEN [issues[k] EXCEPT !.acknowledged = now]
                                   ELSE issues[k]
          /\ \A ms \in IgnoreDurations :
               ignoreIssues(keys, ms) =>
                 /\ CountsNaming(keys)
                 /\ \A k \in 1..Len(issues) :
                      issues'[k] = IF k \in Named(keys)
                                     THEN [issues[k] EXCEPT !.ignoreUntil =
                                             IF ms = Forever THEN Forever ELSE now + ms]
                                     ELSE issues[k]
          /\ removeIgnoreIssues(keys) =>
               /\ CountsNaming(keys)
               /\ \A k \in 1..Len(issues) :
                    issues'[k] = IF k \in Named(keys)
                                   THEN [issues[k] EXCEPT !.ignoreUntil = Undefined,
                                                          !.alerted = Undefined]
                                   ELSE issues[k]
     /\ \A key \in Keys(issues) :
          removeIssue(key) =>
            /\ issues' = SelectSeq(issues, LAMBDA i : KeyOf(i) # key)
            /\ IndexOf(issues, key) = 0 => issues' = issues
    ]_vars

\* of two issues a request has acknowledged one and a request has ignored
\* the other for a time
OneAcknowledgedOneIgnored ==
  \E k, j \in 1..Len(issues) :
    /\ issues[k].acknowledged # Undefined /\ issues[k].ignoreUntil = Undefined
    /\ issues[j].acknowledged = Undefined /\ issues[j].ignoreUntil > now
\* the entry of a notifier the settings did not hold: not switched on, every
\* alert on, every field the notifier declares with an empty value
FreshEntry(n, entry) ==
  /\ entry.exists /\ ~entry.on
  /\ \A t \in IssueTypeIds : entry.alerts[t]
  /\ \A k \in 1..Len(NotifierFields[n]) :
       /\ entry.fields[NotifierFields[n][k].name].present
       /\ entry.fields[NotifierFields[n][k].name].value = ""

\* the settings after a backfill of the settings before
BackfillOf(before) ==
  \A n \in DOMAIN before :
    IF before[n].exists THEN notifiers'[n] = before[n] ELSE FreshEntry(n, notifiers'[n])

\* C26: the backfill of initializeParliament and of restoreDefaults gives
\* every registered notifier without an entry one with all alerts on and
\* empty field values, and leaves the entries that are there as they are
BackfillKeepsEntries ==
  [][/\ initializeParliament => BackfillOf(IF "notifiers" \in defaults.shared
                                             THEN defaults.notifiers ELSE notifiers)
     /\ restoreDefaults("general") => BackfillOf(notifiers)
     /\ restoreDefaults("all") => BackfillOf(defaults.notifiers)]_vars

\* the server runs with the entry of n1 from the file and a backfilled n2
OneKeptOneBackfilled ==
  /\ Listening
  /\ notifiers["n1"] = Configured
  /\ FreshEntry("n2", notifiers["n2"])
  /\ issues # <<>>
\* every write of the issues file has ended, none in an error, and the last
\* one called was given the issue list as it is
SavesEnded ==
  /\ disk.followed /\ ~disk.failed
  /\ \A w \in disk.writes : w.file # "issuesfile"
  /\ issuesSaved = issues

\* C29: once no write of the issues file is in flight, the file holds the
\* issue list of the program, in whatever order the writes ended
PersistedEqualsMemory == SavesEnded => disk.issuesfile = issues

\* C24: a write that fails leaves the issue list, the clusters and the
\* pending alerts as they were, holds no cycle back and does not end the
\* process
FailedSaveChangesNothing ==
  [][(\E w \in disk.writes : WriteFails(w)) =>
       /\ issues' = issues /\ clusters' = clusters /\ alerts' = alerts
       /\ cycles' = cycles /\ fetches' = fetches /\ ~crashed']_vars

\* a write of the issues file has failed, the cycle it belongs to is over and
\* a later cycle has found the issue the file does not hold
PolledAfterFailedSave ==
  /\ disk.failed /\ disk.writes = {}
  /\ disk.issuesfile = <<>> /\ issues # <<>>
  /\ cycles[1].pending = 1
  /\ \E k \in 1..Len(issues) : issues[k].lastNoticed > Epoch
\* the route leaves the list with the issues it had, each as it was but for
\* field, those the keys do not name as they were, and the pending alerts
\* as they were
TouchesOnly(field, keys) ==
  /\ Len(issues') = Len(issues)
  /\ \A k \in 1..Len(issues) :
       /\ issues'[k] = [issues[k] EXCEPT ![field] = issues'[k][field]]
       /\ k \notin Named(keys) => issues'[k] = issues[k]
  /\ alerts' = alerts

\* C32: acknowledge changes nothing but acknowledged of the issues it
\* matches and ignore nothing but their ignoreUntil; neither adds, removes
\* or changes another issue or appends a pending alert
RoutesTouchOneField ==
  [][\A keys \in KeyLists(issues) :
       /\ acknowledgeIssues(keys) => TouchesOnly("acknowledged", keys)
       /\ \A ms \in IgnoreDurations :
            ignoreIssues(keys, ms) => TouchesOnly("ignoreUntil", keys)]_vars

\* an alerted issue has been acknowledged and another ignored while their
\* alerts are pending and a third issue of the list has been left alone
RoutesUsedWhileAlertsPending ==
  /\ alerts # <<>>
  /\ \E k \in 1..Len(issues) :
       issues[k].acknowledged # Undefined /\ issues[k].alerted # Undefined
  /\ \E k \in 1..Len(issues) :
       issues[k].ignoreUntil # Undefined /\ issues[k].alerted # Undefined
  /\ \E k \in 1..Len(issues) :
       issues[k].acknowledged = Undefined /\ issues[k].ignoreUntil = Undefined
\* C33: restoring the defaults, of either type, leaves the general settings
\* with the values of the program text (30, 5, 60, 15), whatever the
\* parliament file held and whatever settings were saved before
RestoreGivesHardCoded ==
  [][\A type \in {"general", "all"} : restoreDefaults(type) => general' = settingsDefault]_vars
\* the detection d found an issue that setIssue passes to buildAlert: a new
\* one, or one that is not acknowledged and either has neither ignoreUntil
\* nor alerted set or has an ignore that has expired
Attempted(d) ==
  \/ ~d.existed
  \/ ~d.acknowledged /\ d.ignore = "expired"
  \/ ~d.acknowledged /\ d.ignore = "no" /\ ~d.alerted

\* C31: a detection that attempts the alert of an issue sets its alerted to
\* the time of the detection, whether or not a notifier takes the alert; a
\* later detection of an issue that has alerted set enqueues nothing for it,
\* whatever the notifier settings are by then; and alerted is cleared only
\* by a detection after the ignore has expired, by the clear-ignore request
\* or by the sweep that unacknowledges
AlertedAtEnqueue ==
  [][/\ \A d \in lastDetected' :
          /\ Attempted(d) =>
               /\ IndexOf(issues', d.key) # 0
               /\ issues'[IndexOf(issues', d.key)].alerted = now
          /\ (d.existed /\ d.alerted /\ d.ignore # "expired") =>
               /\ EnqueuedFor(issues[IndexOf(issues, d.key)]) = 0
               /\ issues'[IndexOf(issues', d.key)].alerted
                    = issues[IndexOf(issues, d.key)].alerted
     /\ \A k \in 1..Len(issues) :
          (/\ issues[k].alerted # Undefined
           /\ IndexOf(issues', KeyOf(issues[k])) # 0
           /\ issues'[IndexOf(issues', KeyOf(issues[k]))].alerted = Undefined) =>
            \/ SweepStep /\ issues[k].acknowledged # Undefined
            \/ \E keys \in KeyLists(issues) : removeIgnoreIssues(keys)
            \/ \E d \in lastDetected' : d.key = KeyOf(issues[k]) /\ d.ignore = "expired"
    ]_vars

\* the issue was created while no notifier took its alert, n1 has been
\* switched on since, and a later detection has found the issue with alerted
\* set: no alert has been enqueued
EnabledLaterStaysSilent ==
  /\ alerts = <<>>
  /\ \E d \in lastDetected :
       /\ d.existed /\ d.alerted /\ ~d.acknowledged /\ d.ignore = "no"
       /\ Subscribers(d.key.type) # {}
====
